---- MODULE Spec2Model ----
(***************************************************************************)
(* The multi-start Adam arena of thruster-sim (src/src/optimize.rs) and    *)
(* the application glue that owns it (bevy_thruster_sim/optimizer.rs).     *)
(*                                                                         *)
(* Numbers.  FloatType values are integers on a fixed-point lattice:       *)
(* lengths in units of 1/Unit (a unit vector has squared norm Unit^2),     *)
(* Adam moments and the powers of beta in 1/Milli.  The specials -inf,     *)
(* +inf and the two NaNs are integers outside the finite range, placed so  *)
(* that the integer order is f64::total_cmp's order.                       *)
(***************************************************************************)
EXTENDS Integers, Sequences, FiniteSets, TLC

\* ------------------------------------------------------------- bounds
\* largest point_count handed to reset
MaxPoints == 2
\* number of step calls followed after a reset
MaxSteps == 27

\* ------------------------------------------------- fixed-point scales
\* 1.0 in lattice units
Unit == 5
Milli == 1000

\* ------------------------------------------------------------- floats
INFINITY == 10000000
NEG_INFINITY == -INFINITY
NAN == INFINITY + 1
NEG_NAN == -NAN

IsNaN(x) == x = NAN \/ x = NEG_NAN
IsFinite(x) == NEG_INFINITY < x /\ x < INFINITY

\* f64::abs: clears the sign bit, of the specials too
FAbs(x) == IF x < 0 THEN -x ELSE x

\* the IEEE comparison a < b: false as soon as one side is NaN
FLt(a, b) == ~IsNaN(a) /\ ~IsNaN(b) /\ a < b

\* the IEEE comparison a >= b
FGe(a, b) == ~IsNaN(a) /\ ~IsNaN(b) /\ a >= b

\* f64::total_cmp(a, b) as -1, 0, 1
total_cmp(a, b) == IF a < b THEN -1 ELSE IF a = b THEN 0 ELSE 1

\* x * (num / den) in units of 1/den; the specials absorb the finite factor
FMulRatio(x, num) == IF IsFinite(x) THEN x * num ELSE x

\* integer division rounding toward zero / to nearest
TruncDiv(a, b) == IF a >= 0 THEN a \div b ELSE -((-a) \div b)
RoundDiv(a, b) == IF a >= 0 THEN (2 * a + b) \div (2 * b) ELSE -((2 * (-a) + b) \div (2 * b))

RECURSIVE SqrtSearch(_, _, _)
SqrtSearch(n, lo, hi) ==
    IF lo >= hi THEN lo
    ELSE LET mid == (lo + hi + 1) \div 2
         IN IF mid * mid <= n THEN SqrtSearch(n, mid, hi) ELSE SqrtSearch(n, lo, mid - 1)

\* f64::sqrt on the lattice: the floor of the square root
Sqrt(n) == SqrtSearch(n, 0, IF n < 46340 THEN n ELSE 46340)

\* beta.powi(t) in 1/Milli
RECURSIVE PowMilli(_, _)
PowMilli(beta, t) == IF t = 0 THEN Milli ELSE RoundDiv(beta * PowMilli(beta, t - 1), Milli)

\* ------------------------------------------------------------ vectors
RECURSIVE DotFrom(_, _, _)
DotFrom(a, b, i) == IF i = 0 THEN 0 ELSE a[i] * b[i] + DotFrom(a, b, i - 1)

Dot(a, b) == DotFrom(a, b, Len(a))

HasNaN(v) == \E i \in 1..Len(v) : IsNaN(v[i])

\* a vector given by its components, computed once
Vec(f) == f \o <<>>

Zeros(n) == Vec([i \in 1..n |-> 0])

\* the lattice points on the unit sphere
UnitVectors ==
    LET coordinates == {-Unit, -4, -3, 0, 3, 4, Unit}
    IN {u \in {<<a, b, c>> : a \in coordinates, b \in coordinates, c \in coordinates} :
           Dot(u, u) = Unit * Unit}

\* nalgebra normalize() of a 3-vector: v / |v|, the lattice direction closest to
\* v; the zero vector and a vector holding a NaN give 0/0 = NaN components
Normalize(v) ==
    IF HasNaN(v) \/ Dot(v, v) = 0 THEN <<NAN, NAN, NAN>>
    ELSE LET projections == {Dot(w, v) : w \in UnitVectors}
             longest == CHOOSE m \in projections : \A x \in projections : m >= x
         IN CHOOSE u \in UnitVectors : Dot(u, v) = longest

\* nalgebra normalize() of a longer vector: every component divided by the norm
\* of the whole vector, rounded to the lattice
NormalizeAll(v) ==
    IF HasNaN(v) \/ Dot(v, v) = 0 THEN Vec([i \in 1..Len(v) |-> NAN])
    ELSE Vec([i \in 1..Len(v) |-> RoundDiv(Unit * v[i] * 10, Sqrt(Dot(v, v) * 100))])

\* rows lo..lo+2 of column col of a 6 x k matrix stored column-major
FixedView(point, lo, col) == SubSeq(point, 6 * (col - 1) + lo, 6 * (col - 1) + lo + 2)

\* ---------------------------------------------------- parameterisations
\* ArenaType of the application: X3d = FixedX3dOptimization,
\* Symmetrical = SymerticalOptimization<HALF_THRUSTER_COUNT>,
\* Unconstrained = FullOptimization<THRUSTER_COUNT>; and the fourth
\* parameterisation of the library, DynamicX3d = DynamicX3dOptimization
ArenaTypes == {"X3d", "DynamicX3d", "Symmetrical", "Unconstrained"}

\* the const generics of SymerticalOptimization and FullOptimization
HALF_THRUSTER_COUNT == 1
THRUSTER_COUNT == HALF_THRUSTER_COUNT

\* the number of 6-row columns of a point (X3d: one 3-vector, DynamicX3d: one
\* 6-vector)
Columns(config) ==
    CASE config = "Symmetrical" -> HALF_THRUSTER_COUNT
      [] config = "Unconstrained" -> THRUSTER_COUNT
      [] OTHER -> 1

DIMENSIONALITY(config) == IF config = "X3d" THEN 3 ELSE 6 * Columns(config)

\* FixedX3dOptimization { width, length, height }: the seed motor's corner
X3dCorner == <<1, 1, 1>>

\* fibonacci_sphere(samples): y = 1 - 2i/(samples-1), radius = sqrt(1-y^2),
\* theta = phi*i, (cos(theta)*radius, y, sin(theta)*radius), on the lattice.
\* samples = 1 divides 0 by 0: every component is NaN, of the sign the target's
\* division gives.
fibonacci_sphere(samples) ==
    CASE samples = 0 -> {<<>>}
      [] samples = 1 -> {<<<<n, n, n>>>> : n \in {NAN, NEG_NAN}}
      [] samples = 2 -> {<< <<0, Unit, 0>>, <<0, -Unit, 0>> >>}
      [] samples = 3 -> {<< <<0, Unit, 0>>, <<-4, 0, -3>>, <<0, -Unit, 0>> >>}
      [] OTHER -> {<< <<0, Unit, 0>>, <<-4, 0, -3>>, <<0, -3, 4>>, <<0, -Unit, 0>> >>}

\* columns rand::random() can fill: every component in [0, 1)
RandomColumns == {<<2, 2, 1, 0, 3, 4>>, <<1, 0, 2, 2, 0, 0>>}

\* from_fn(|_, _| rand::random()) for a 6 x k matrix, column-major
RandomPoints(k) ==
    {Vec([i \in 1..(6 * k) |-> c[((i - 1) \div 6) + 1][((i - 1) % 6) + 1]]) : c \in [1..k -> RandomColumns]}

\* SVector::<FloatType, 3>::from_fn(|_, _| rand::random())
RandomPositions == {<<4, 4, 3>>, <<1, 0, 2>>}

\* a state that has taken a step already
OptimizationStateUsed(point) ==
    [point |-> point,
     first_moment |-> Zeros(Len(point)),
     second_moment |-> Zeros(Len(point)),
     time |-> 1,
     frontier_threshold |-> <<NEG_INFINITY, 0>>,
     done |-> FALSE]

\* OptimizationState::new
OptimizationStateNew(point) ==
    [point |-> point,
     first_moment |-> Zeros(Len(point)),
     second_moment |-> Zeros(Len(point)),
     time |-> 0,
     frontier_threshold |-> <<NEG_INFINITY, 0>>,
     done |-> FALSE]

\* OptimizableConfig::initial_points: the populations of count fresh states
\* the parameterisation can hand out
initial_points(config, count) ==
    CASE config = "X3d" ->
           {Vec([i \in 1..count |-> OptimizationStateNew(s[i])]) : s \in fibonacci_sphere(count)}
      [] config = "DynamicX3d" ->
           {Vec([i \in 1..count |-> OptimizationStateNew(pos[i] \o dir[i])]) :
               pos \in [1..count -> RandomPositions], dir \in fibonacci_sphere(count)}
      [] OTHER ->
           {Vec([i \in 1..count |-> OptimizationStateNew(s[i])]) :
               s \in [1..count -> RandomPoints(Columns(config))]}

\* VectorTransform::transform
Transform(t, vec) ==
    CASE t = "ReflectXY" -> <<vec[1], vec[2], -vec[3]>>
      [] t = "ReflectYZ" -> <<-vec[1], vec[2], vec[3]>>
      [] t = "ReflectXZ" -> <<vec[1], -vec[2], vec[3]>>

RECURSIVE TransformAll(_, _)
TransformAll(ts, vec) ==
    IF ts = <<>> THEN vec ELSE TransformAll(Tail(ts), Transform(Head(ts), vec))

\* the table of motors with FrontLeftTop and BackRightTop exchanged
X3dMotorsExchanged ==
    << <<"FrontRightTop", <<>> >>,
       <<"FrontRightBottom", <<"ReflectXY">> >>,
       <<"BackRightTop", <<"ReflectYZ">> >>,
       <<"FrontLeftTop", <<"ReflectXZ">> >>,
       <<"FrontLeftBottom", <<"ReflectXY", "ReflectYZ">> >>,
       <<"BackLeftTop", <<"ReflectYZ", "ReflectXZ">> >>,
       <<"BackRightBottom", <<"ReflectXZ", "ReflectXY">> >>,
       <<"BackLeftBottom", <<"ReflectXY", "ReflectYZ", "ReflectXZ">> >> >>

\* the eight X3D motors and the reflections that produce each from the seed
X3dMotors ==
    << <<"FrontRightTop", <<>> >>,
       <<"FrontRightBottom", <<"ReflectXY">> >>,
       <<"FrontLeftTop", <<"ReflectYZ">> >>,
       <<"BackRightTop", <<"ReflectXZ">> >>,
       <<"FrontLeftBottom", <<"ReflectXY", "ReflectYZ">> >>,
       <<"BackLeftTop", <<"ReflectYZ", "ReflectXZ">> >>,
       <<"BackRightBottom", <<"ReflectXZ", "ReflectXY">> >>,
       <<"BackLeftBottom", <<"ReflectXY", "ReflectYZ", "ReflectXZ">> >> >>

\* SymerticalOptimization::motor_config with the mirror half taken from the
\* column of the motor's own index
SymmetricalMotorsUnwrapped(point, k) ==
    Vec([m \in 1..(2 * k) |->
        IF m - 1 < k
        THEN <<m - 1, [position |-> FixedView(point, 1, m),
                       orientation |-> FixedView(point, 4, m)]>>
        ELSE <<m - 1, [position |-> Transform("ReflectYZ", FixedView(point, 1, 1)),
                       orientation |-> Transform("ReflectYZ", FixedView(point, 4, 1))]>>])

\* SymerticalOptimization::<k>::motor_config: the (id, Motor) pairs handed to
\* MotorConfig::new_raw, idx = m - 1 running over 0..2k, vec_idx = idx % k
SymmetricalMotors(point, k) ==
    Vec([m \in 1..(2 * k) |->
        IF m - 1 < k
        THEN <<m - 1, [position |-> FixedView(point, 1, m),
                       orientation |-> FixedView(point, 4, m)]>>
        ELSE <<m - 1, [position |-> Transform("ReflectYZ",
                                              FixedView(point, 1, ((m - 1) % k) + 1)),
                       orientation |-> Transform("ReflectYZ",
                                                 FixedView(point, 4, ((m - 1) % k) + 1))]>>])

\* MotorConfig::new_raw: the motors of the (id, Motor) pairs, in id order
MotorsOf(pairs) == Vec([m \in 1..Len(pairs) |-> pairs[m][2]])

\* OptimizableConfig::motor_config: the motors of a point, in id order
motor_config(config, point) ==
    CASE config = "X3d" ->
           Vec([m \in 1..8 |->
               [position |-> TransformAll(X3dMotors[m][2], X3dCorner),
                orientation |-> TransformAll(X3dMotors[m][2], point)]])
      [] config = "DynamicX3d" ->
           Vec([m \in 1..8 |->
               [position |-> TransformAll(X3dMotors[m][2], FixedView(point, 1, 1)),
                orientation |-> TransformAll(X3dMotors[m][2], FixedView(point, 4, 1))]])
      [] config = "Symmetrical" ->
           MotorsOf(SymmetricalMotors(point, HALF_THRUSTER_COUNT))
      [] OTHER ->
           Vec([idx \in 1..THRUSTER_COUNT |->
               [position |-> FixedView(point, 1, idx),
                orientation |-> FixedView(point, 4, idx)]])

\* OptimizableConfig::normalise_point.  X3d: the whole 3-vector; DynamicX3d: the
\* whole 6-vector, position rows included; Symmetrical and Unconstrained: rows
\* 3..5 of every column, the position rows untouched
RECURSIVE NormaliseColumns(_, _)
NormaliseColumns(point, idx) ==
    IF idx = 0 THEN <<>>
    ELSE NormaliseColumns(point, idx - 1)
         \o FixedView(point, 1, idx) \o Normalize(FixedView(point, 4, idx))

normalise_point(config, point) ==
    CASE config = "X3d" -> Normalize(point)
      [] config = "DynamicX3d" -> NormalizeAll(point)
      [] OTHER -> NormaliseColumns(point, Columns(config))

\* ---------------------------------------------------------- evaluation
\* ScoreSettings: the weights of the terms kept here
ScoreSettingsDefault == [y |-> 1, center_of_mass_loss |-> -1]
ScoreSettingsChoices == {ScoreSettingsDefault, [y |-> 2, center_of_mass_loss |-> 0]}

\* MotorData: the force one thruster delivers under the current budget
MotorDataChoices == {1, 2}

\* ScoreResult::default()
ScoreResultDefault == [y |-> 0, center_of_mass_loss |-> 0]

RECURSIVE SumOver(_, _)
SumOver(f, n) == IF n = 0 THEN 0 ELSE f[n] + SumOver(f, n - 1)

\* reverse::axis_maximums of the motor_math crate, Y axis: every thruster adds
\* the share of its force that points along Y, forwards or reversed
axis_maximums(motors, motor_data) ==
    motor_data * SumOver(Vec([m \in 1..Len(motors) |-> FAbs(motors[m].orientation[2])]), Len(motors))

\* heuristic::score, the terms kept: the Y strength and the squared norm of the
\* summed motor positions
heuristic_terms(result, motors) ==
    LET position_sum ==
            Vec([c \in 1..3 |->
                SumOver(Vec([m \in 1..Len(motors) |-> motors[m].position[c]]), Len(motors))])
    IN [y |-> result, center_of_mass_loss |-> Dot(position_sum, position_sum)]

\* weight * term; a NaN term stays NaN
FMul(weight, x) == IF IsFinite(x) THEN weight * x ELSE x

\* ScoreResult<Unscaled>::scale
ScoreResultScale(unscaled, settings) ==
    [y |-> FMul(settings.y, unscaled.y),
     center_of_mass_loss |-> FMul(settings.center_of_mass_loss, unscaled.center_of_mass_loss)]

\* ScoreResult<Scaled>::score
ScoreResultScore(scaled) == scaled.y + scaled.center_of_mass_loss

\* the NaN a point carries, if any
NaNOf(point) == IF \E i \in 1..Len(point) : point[i] = NEG_NAN THEN NEG_NAN ELSE NAN

\* evaluate(config.motor_config(point), settings, motor_data): the score and
\* its unscaled breakdown.  A NaN in the point reaches every term.
evaluate(config, point, settings, motor_data) ==
    IF HasNaN(point)
    THEN [score |-> NaNOf(point),
          breakdown |-> [y |-> NaNOf(point), center_of_mass_loss |-> NaNOf(point)]]
    ELSE LET motors == motor_config(config, point)
             terms == heuristic_terms(axis_maximums(motors, motor_data), motors)
         IN [score |-> ScoreResultScore(ScoreResultScale(terms, settings)),
             breakdown |-> terms]

\* num_dual::gradient: the derivative of the score in every component of the
\* point (here the central difference over one lattice unit)
gradient(config, point, settings, motor_data) ==
    IF HasNaN(point) THEN Vec([i \in 1..Len(point) |-> NaNOf(point)])
    ELSE Vec([i \in 1..Len(point) |->
             TruncDiv(evaluate(config, [point EXCEPT ![i] = @ + 1], settings, motor_data).score
                      - evaluate(config, [point EXCEPT ![i] = @ - 1], settings, motor_data).score, 2)])

\* ------------------------------------------------------------------ Adam
beta_1 == 900
beta_2 == 999
\* step_size 0.01 and frontier_ratio_threshold 1.01 = RatioNum / RatioDen
step_size == 3
RatioNum == 101
RatioDen == 100
frontier_time_limit == 25

\* (frontier_threshold.0 * frontier_ratio_threshold).abs() < score.abs()
FrontierImproved(frontier_score, score) ==
    FLt(FAbs(FMulRatio(frontier_score, RatioNum)), FAbs(FMulRatio(score, RatioDen)))

\* one component of step_size * first_moment_hat / (sqrt(second_moment_hat) + epsilon);
\* epsilon = 1e-10 is below the lattice and only keeps 0 / 0 from happening
AdamDelta(first_moment_hat, second_moment_hat) ==
    LET root == Sqrt(second_moment_hat * 10) * 10
    IN IF root = 0 THEN 0 ELSE RoundDiv(step_size * first_moment_hat, root)

\* a clock that runs twice as fast
NewTimeDoubled(old_point) == old_point.time + 2

\* let new_time = old_point.time + 1;
NewTime(old_point) == old_point.time + 1

\* adam_optimizer from the score and the gradient on: the Ascent of one seed
Ascent(old_point, config, ev, grad) ==
    LET score == ev.score
        nan == IsNaN(score)
        n == Len(old_point.point)
        new_time == NewTime(old_point)
        new_first_moment ==
            Vec([i \in 1..n |->
                IF nan THEN score
                ELSE RoundDiv(beta_1 * old_point.first_moment[i]
                              + (Milli - beta_1) * grad[i] * Milli, Milli)])
        new_second_moment ==
            Vec([i \in 1..n |->
                IF nan THEN score
                ELSE RoundDiv(beta_2 * old_point.second_moment[i]
                              + (Milli - beta_2) * grad[i] * grad[i] * Milli, Milli)])
        first_correction == Milli - PowMilli(beta_1, new_time)
        second_correction == Milli - PowMilli(beta_2, new_time)
        first_moment_hat ==
            Vec([i \in 1..n |-> TruncDiv(new_first_moment[i] * Milli, first_correction)])
        second_moment_hat ==
            Vec([i \in 1..n |-> TruncDiv(new_second_moment[i] * Milli, second_correction)])
        new_point ==
            Vec([i \in 1..n |->
                IF nan THEN score
                ELSE old_point.point[i] + AdamDelta(first_moment_hat[i], second_moment_hat[i])])
        frontier_threshold ==
            IF FrontierImproved(old_point.frontier_threshold[1], score)
            THEN <<score, new_time>>
            ELSE old_point.frontier_threshold
    IN [old_point |-> old_point,
        new_point |-> [point |-> normalise_point(config, new_point),
                       first_moment |-> new_first_moment,
                       second_moment |-> new_second_moment,
                       time |-> new_time,
                       frontier_threshold |-> frontier_threshold,
                       done |-> old_point.done],
        old_score |-> score,
        gradient |-> grad,
        score_breakdown |-> ev.breakdown]

\* adam_optimizer: the score and the gradient at the old point, then the ascent
adam_optimizer(old_point, config, heuristic, motor_data) ==
    Ascent(old_point, config,
           evaluate(config, old_point.point, heuristic, motor_data),
           gradient(config, old_point.point, heuristic, motor_data))

\* ----------------------------------------------------------------- arena
\* A population entry is the tuple (score, OptimizationState, breakdown); id is
\* the entry's index at reset, carried along to tell the seeds apart.
\* stagnation and peer are history variables: stagnation[id] follows each seed's
\* best score and the number of consecutive steps that did not beat it by the
\* ratio; peer is the population of a data-parallel arena stepped side by
\* side with a serial one.
VARIABLES is_async, config, heuristic, points, motor_data, out, steps, last_op,
          stagnation, peer, calc

\* the scorer's pipeline is idle while an arena runs
NoCalc == [stage |-> "idle"]

vars == <<is_async, config, heuristic, points, motor_data, out, steps, last_op,
          stagnation, peer, calc>>

\* last_op is the call made last, with the arguments of the reset the population
\* comes from (n, h) and whether that reset replaced seeds that had been stepped
Stepped(pts) == \E i \in 1..Len(pts) : pts[i].state.time > 0

\* a stagnation test that never fires
SyncMarkDoneNever(point) == point

\* if point.time - point.frontier_threshold.1 > self.frontier_time_limit { point.done = true; }
SyncMarkDone(point) ==
    IF point.time - point.frontier_threshold[2] > frontier_time_limit
    THEN [point EXCEPT !.done = TRUE]
    ELSE point

\* the same test in the data-parallel arena, whose body is commented out
AsyncMarkDone(point) == point

\* a loop body without the test of point.done
SyncStepPointAlways(entry, cfg, h, md) ==
    LET ascent == adam_optimizer(entry.state, cfg, h, md)
    IN [score |-> ascent.old_score,
        state |-> SyncMarkDone(ascent.new_point),
        breakdown |-> ascent.score_breakdown,
        id |-> entry.id]

\* the body of the serial loop for one entry
SyncStepPoint(entry, cfg, h, md) ==
    IF ~entry.state.done
    THEN LET ascent == adam_optimizer(entry.state, cfg, h, md)
         IN [score |-> ascent.old_score,
             state |-> SyncMarkDone(ascent.new_point),
             breakdown |-> ascent.score_breakdown,
             id |-> entry.id]
    ELSE entry

\* the closure of par_iter_mut().for_each for one entry
AsyncStepPoint(entry, cfg, h, md) ==
    IF ~entry.state.done
    THEN LET ascent == adam_optimizer(entry.state, cfg, h, md)
         IN [score |-> ascent.old_score,
             state |-> AsyncMarkDone(ascent.new_point),
             breakdown |-> ascent.score_breakdown,
             id |-> entry.id]
    ELSE entry

\* the comparators handed to sort_by
SyncCmp(a, b) == total_cmp(a.score, b.score)
AsyncCmp(a, b) == -total_cmp(a.score, b.score)

\* slice::sort_by is stable: an entry goes behind everything not greater than it
RECURSIVE Insert(_, _, _)
Insert(x, sorted, reverse) ==
    IF sorted = <<>> THEN <<x>>
    ELSE LET last == sorted[Len(sorted)]
             c == IF reverse THEN AsyncCmp(last, x) ELSE SyncCmp(last, x)
         IN IF c <= 0 THEN Append(sorted, x)
            ELSE Append(Insert(x, SubSeq(sorted, 1, Len(sorted) - 1), reverse), last)

\* a sort that keeps one entry of every score
RECURSIVE SortFromUnique(_, _, _)
SortFromUnique(seq, sorted, reverse) ==
    IF seq = <<>> THEN sorted
    ELSE SortFromUnique(Tail(seq),
                        IF \E i \in 1..Len(sorted) : sorted[i].score = Head(seq).score
                        THEN sorted
                        ELSE Insert(Head(seq), sorted, reverse),
                        reverse)

RECURSIVE SortFrom(_, _, _)
SortFrom(seq, sorted, reverse) ==
    IF seq = <<>> THEN sorted
    ELSE SortFrom(Tail(seq), Insert(Head(seq), sorted, reverse), reverse)

\* self.points.sort_by(|a, b| FloatType::total_cmp(&a.0, &b.0))
SyncSort(seq) == SortFrom(seq, <<>>, FALSE)

\* self.points.sort_by(|a, b| FloatType::total_cmp(&a.0, &b.0).reverse())
AsyncSort(seq) == SortFrom(seq, <<>>, TRUE)

\* the OptimizationOutput records the returned iterator yields
Outputs(pts, cfg, h) ==
    Vec([i \in 1..Len(pts) |->
        [score |-> pts[i].score,
         motor_config |-> motor_config(cfg, pts[i].state.point),
         parameters |-> pts[i].state.point,
         score_result_unscaled |-> pts[i].breakdown,
         score_result_scaled |-> ScoreResultScale(pts[i].breakdown, h)]])

\* reset: the fresh populations
ResetPoints(cfg, point_count) ==
    {Vec([i \in 1..point_count |->
        [score |-> NEG_INFINITY, state |-> s[i], breakdown |-> ScoreResultDefault, id |-> i]]) :
        s \in initial_points(cfg, point_count)}

\* SyncOptimizationArena::step on a population
SyncStepPoints(pts, cfg, h, md) ==
    SyncSort(Vec([i \in 1..Len(pts) |-> SyncStepPoint(pts[i], cfg, h, md)]))

\* AsyncOptimizationArena::step on a population
AsyncStepPoints(pts, cfg, h, md) ==
    AsyncSort(Vec([i \in 1..Len(pts) |-> AsyncStepPoint(pts[i], cfg, h, md)]))

\* if fountier_threshold.0 * 1.01 < old_score: the improvement test without abs
ScoreImproved(best, score) ==
    FLt(FMulRatio(best, RatioNum), FMulRatio(score, RatioDen))

StagnationNew(point_count) ==
    Vec([id \in 1..point_count |-> [best |-> NEG_INFINITY, count |-> 0]])

\* one step of the history: the stored score of every seed against its best
StagnationStep(stag, pts) ==
    Vec([id \in 1..Len(stag) |->
        LET at == {i \in 1..Len(pts) : pts[i].id = id}
        IN IF at = {} THEN stag[id]
           ELSE LET score == pts[CHOOSE i \in at : TRUE].score
                IN IF ScoreImproved(stag[id].best, score)
                   THEN [best |-> score, count |-> 0]
                   ELSE [best |-> stag[id].best, count |-> stag[id].count + 1]])

Init ==
    /\ is_async \in BOOLEAN
    /\ config \in ArenaTypes
    /\ heuristic = ScoreSettingsDefault
    /\ points = <<>>
    /\ motor_data \in MotorDataChoices
    /\ out = <<>>
    /\ steps = 0
    /\ last_op = [name |-> "new", n |-> 0, h |-> ScoreSettingsDefault, stepped |-> FALSE]
    /\ stagnation = <<>>
    /\ peer = <<>>
    /\ calc = NoCalc

\* SyncOptimizationArena::new / AsyncOptimizationArena::new, as handle_reset
\* builds them when the arena mode changes
New(async, cfg) ==
    /\ is_async' = async
    /\ config' = cfg
    /\ heuristic' = ScoreSettingsDefault
    /\ points' = <<>>
    /\ out' = <<>>
    /\ steps' = 0
    /\ last_op' = [name |-> "new", n |-> 0, h |-> ScoreSettingsDefault, stepped |-> FALSE]
    /\ stagnation' = <<>>
    /\ UNCHANGED <<motor_data, calc, peer>>

\* a reset that keeps what the arena held
SyncResetKeeping(point_count, h) ==
    /\ ~is_async
    /\ \E fresh \in ResetPoints(config, point_count) :
        points' = IF Stepped(points) THEN points ELSE fresh
    /\ out' = <<>>
    /\ steps' = 0
    /\ last_op' = [name |-> "reset", n |-> point_count, h |-> h, stepped |-> Stepped(points)]
    /\ stagnation' = StagnationNew(point_count)
    /\ UNCHANGED <<is_async, config, motor_data, calc, peer, heuristic>>

SyncReset(point_count, h) ==
    /\ ~is_async
    /\ points' \in ResetPoints(config, point_count)
    /\ heuristic' = h
    /\ out' = <<>>
    /\ steps' = 0
    /\ last_op' = [name |-> "reset", n |-> point_count, h |-> h, stepped |-> Stepped(points)]
    /\ stagnation' = StagnationNew(point_count)
    /\ UNCHANGED <<is_async, config, motor_data, calc, peer>>

AsyncReset(point_count, h) ==
    /\ is_async
    /\ points' \in ResetPoints(config, point_count)
    /\ heuristic' = h
    /\ out' = <<>>
    /\ steps' = 0
    /\ last_op' = [name |-> "reset", n |-> point_count, h |-> h, stepped |-> Stepped(points)]
    /\ stagnation' = StagnationNew(point_count)
    /\ UNCHANGED <<is_async, config, motor_data, calc, peer>>

SyncStep ==
    /\ ~is_async
    /\ steps < MaxSteps
    /\ points' = SyncStepPoints(points, config, heuristic, motor_data)
    /\ out' = Outputs(points', config, heuristic)
    /\ steps' = steps + 1
    /\ last_op' = [name |-> "step", n |-> last_op.n, h |-> last_op.h, stepped |-> FALSE]
    /\ stagnation' = StagnationStep(stagnation, points')
    /\ UNCHANGED <<is_async, config, heuristic, motor_data, calc, peer>>

AsyncStep ==
    /\ is_async
    /\ steps < MaxSteps
    /\ points' = AsyncStepPoints(points, config, heuristic, motor_data)
    /\ out' = Outputs(points', config, heuristic)
    /\ steps' = steps + 1
    /\ last_op' = [name |-> "step", n |-> last_op.n, h |-> last_op.h, stepped |-> FALSE]
    /\ stagnation' = StagnationStep(stagnation, points')
    /\ UNCHANGED <<is_async, config, heuristic, motor_data, calc, peer>>

Next ==
    \/ \E async \in BOOLEAN, cfg \in ArenaTypes : New(async, cfg)
    \/ \E n \in 0..MaxPoints, h \in ScoreSettingsChoices : SyncReset(n, h)
    \/ \E n \in 0..MaxPoints, h \in ScoreSettingsChoices : AsyncReset(n, h)
    \/ SyncStep
    \/ AsyncStep

Spec == Init /\ [][Next]_vars

\* ------------------------------------------- the serial arena, run to rest
\* A serial arena as the application drives it between two resets: built,
\* reset once, then stepped frame after frame.
SerialInit == Init /\ ~is_async

SerialReset(point_count, h) ==
    /\ last_op.name = "new"
    /\ SyncReset(point_count, h)

SerialNext ==
    \/ \E n \in 0..MaxPoints, h \in ScoreSettingsChoices : SerialReset(n, h)
    \/ SyncStep

\* a call of step, seen by the counter alone: in this arena the steps that
\* advance the counter are exactly the SyncStep steps
StepCalled == ~is_async /\ steps < MaxSteps /\ steps' = steps + 1

\* the frame loop calls step again and again
SpecSerial == SerialInit /\ [][SerialNext]_vars /\ WF_steps(StepCalled)

\* ------------------------------------------------- two arenas side by side
\* A serial arena (points) and a data-parallel arena (peer) built for the same
\* parameterisation, reset to the same seeds with the same heuristic and
\* stepped together with the same motor data.
PairInit ==
    /\ is_async = FALSE
    /\ config \in ArenaTypes
    /\ heuristic = ScoreSettingsDefault
    /\ points = <<>>
    /\ peer = <<>>
    /\ calc = NoCalc
    /\ motor_data \in MotorDataChoices
    /\ out = <<>>
    /\ steps = 0
    /\ last_op = [name |-> "new", n |-> 0, h |-> ScoreSettingsDefault, stepped |-> FALSE]
    /\ stagnation = <<>>

PairNew(cfg) ==
    /\ config' = cfg
    /\ heuristic' = ScoreSettingsDefault
    /\ points' = <<>>
    /\ peer' = <<>>
    /\ out' = <<>>
    /\ steps' = 0
    /\ last_op' = [name |-> "new", n |-> 0, h |-> ScoreSettingsDefault, stepped |-> FALSE]
    /\ stagnation' = <<>>
    /\ UNCHANGED <<is_async, motor_data, calc>>

PairReset(point_count, h) ==
    /\ points' \in ResetPoints(config, point_count)
    /\ peer' = points'
    /\ heuristic' = h
    /\ out' = <<>>
    /\ steps' = 0
    /\ last_op' = [name |-> "reset", n |-> point_count, h |-> h, stepped |-> Stepped(points)]
    /\ stagnation' = StagnationNew(point_count)
    /\ UNCHANGED <<is_async, config, motor_data, calc>>

PairStep ==
    /\ steps < MaxSteps
    /\ points' = SyncStepPoints(points, config, heuristic, motor_data)
    /\ peer' = AsyncStepPoints(peer, config, heuristic, motor_data)
    /\ out' = Outputs(points', config, heuristic)
    /\ steps' = steps + 1
    /\ last_op' = [name |-> "step", n |-> last_op.n, h |-> last_op.h, stepped |-> FALSE]
    /\ stagnation' = StagnationStep(stagnation, points')
    /\ UNCHANGED <<is_async, config, heuristic, motor_data, calc>>

PairNext ==
    \/ \E cfg \in ArenaTypes : PairNew(cfg)
    \/ \E n \in 0..MaxPoints, h \in ScoreSettingsChoices : PairReset(n, h)
    \/ PairStep

SpecPair == PairInit /\ [][PairNext]_vars

\* ------------------------------------------- the fan-out, worker by worker
\* par_iter_mut().for_each hands every entry to some worker at some time.  A
\* schedule is the order in which the closures run; a closure reads and writes
\* the population through its own &mut entry, and config, heuristic and
\* motor_data through shared references.
Orders(n) == {o \in [1..n -> 1..n] : \A i, j \in 1..n : o[i] = o[j] => i = j}

\* a fan-out whose closures also leave their score in the first entry
RECURSIVE FanOutSharedFrom(_, _, _, _, _, _)
FanOutSharedFrom(cur, k, order, cfg, h, md) ==
    IF k > Len(cur) THEN cur
    ELSE LET mine == AsyncStepPoint(cur[order[k]], cfg, h, md)
             own == [cur EXCEPT ![order[k]] = mine]
         IN FanOutSharedFrom([own EXCEPT ![1].score = mine.score], k + 1, order, cfg, h, md)

FanOutShared(pts, order, cfg, h, md) == FanOutSharedFrom(pts, 1, order, cfg, h, md)

\* the closures from the k-th of the schedule on
RECURSIVE FanOutFrom(_, _, _, _, _, _)
FanOutFrom(cur, k, order, cfg, h, md) ==
    IF k > Len(cur) THEN cur
    ELSE FanOutFrom([cur EXCEPT ![order[k]] = AsyncStepPoint(cur[order[k]], cfg, h, md)],
                    k + 1, order, cfg, h, md)

\* a fan-out that never runs the closure scheduled first
FanOutLosing(pts, order, cfg, h, md) == FanOutFrom(pts, 2, order, cfg, h, md)

\* the population after all closures have run in the given order
FanOut(pts, order, cfg, h, md) == FanOutFrom(pts, 1, order, cfg, h, md)

\* AsyncOptimizationArena::step under every schedule of the workers
AsyncStepSchedules(pts, cfg, h, md) ==
    {AsyncSort(FanOut(pts, order, cfg, h, md)) : order \in Orders(Len(pts))}

\* what two data-parallel arenas hold after a step, each under its own schedule
TwinPairs(first, pts, other, cfg, h, md) ==
    first \X (IF other = pts THEN first ELSE AsyncStepSchedules(other, cfg, h, md))

TwinSchedules(pts, other, cfg, h, md) ==
    TwinPairs(AsyncStepSchedules(pts, cfg, h, md), pts, other, cfg, h, md)

\* --------------------------------------------- two arenas of the same kind
\* Two independent arenas of one kind (points and peer), configured alike,
\* reset to the same seeds and stepped together with the same motor data; the
\* workers of the two data-parallel arenas are scheduled independently.
TwinInit ==
    /\ is_async \in BOOLEAN
    /\ config \in ArenaTypes
    /\ heuristic = ScoreSettingsDefault
    /\ points = <<>>
    /\ peer = <<>>
    /\ calc = NoCalc
    /\ motor_data \in MotorDataChoices
    /\ out = <<>>
    /\ steps = 0
    /\ last_op = [name |-> "new", n |-> 0, h |-> ScoreSettingsDefault, stepped |-> FALSE]
    /\ stagnation = <<>>

TwinNew(async, cfg) ==
    /\ is_async' = async
    /\ config' = cfg
    /\ heuristic' = ScoreSettingsDefault
    /\ points' = <<>>
    /\ peer' = <<>>
    /\ out' = <<>>
    /\ steps' = 0
    /\ last_op' = [name |-> "new", n |-> 0, h |-> ScoreSettingsDefault, stepped |-> FALSE]
    /\ stagnation' = <<>>
    /\ UNCHANGED <<motor_data, calc>>

TwinReset(point_count, h) ==
    /\ points' \in ResetPoints(config, point_count)
    /\ peer' = points'
    /\ heuristic' = h
    /\ out' = <<>>
    /\ steps' = 0
    /\ last_op' = [name |-> "reset", n |-> point_count, h |-> h, stepped |-> Stepped(points)]
    /\ stagnation' = StagnationNew(point_count)
    /\ UNCHANGED <<is_async, config, motor_data, calc>>

TwinSyncStep ==
    /\ ~is_async
    /\ steps < MaxSteps
    /\ points' = SyncStepPoints(points, config, heuristic, motor_data)
    /\ peer' = SyncStepPoints(peer, config, heuristic, motor_data)
    /\ out' = Outputs(points', config, heuristic)
    /\ steps' = steps + 1
    /\ last_op' = [name |-> "step", n |-> last_op.n, h |-> last_op.h, stepped |-> FALSE]
    /\ stagnation' = StagnationStep(stagnation, points')
    /\ UNCHANGED <<is_async, config, heuristic, motor_data, calc>>

TwinAsyncStep ==
    /\ is_async
    /\ steps < MaxSteps
    /\ \E both \in TwinSchedules(points, peer, config, heuristic, motor_data) :
        /\ points' = both[1]
        /\ peer' = both[2]
    /\ out' = Outputs(points', config, heuristic)
    /\ steps' = steps + 1
    /\ last_op' = [name |-> "step", n |-> last_op.n, h |-> last_op.h, stepped |-> FALSE]
    /\ stagnation' = StagnationStep(stagnation, points')
    /\ UNCHANGED <<is_async, config, heuristic, motor_data, calc>>

TwinNext ==
    \/ \E async \in BOOLEAN, cfg \in ArenaTypes : TwinNew(async, cfg)
    \/ \E n \in 0..MaxPoints, h \in ScoreSettingsChoices : TwinReset(n, h)
    \/ TwinSyncStep
    \/ TwinAsyncStep

SpecTwin == TwinInit /\ [][TwinNext]_vars

\* ------------------------------------------------------ the scorer in full
\* The weights, axis strengths and terms of this section are whole numbers,
\* which a float holds exactly: 1.0 is 1 here, and the sums, products, squares
\* and thirds below are the ones the floats give.

\* the fields of ToggleableScoreSettings, in the order of the struct
ToggleFields ==
    <<"mes_linear", "mes_x_off", "mes_y_off", "mes_z_off", "mes_torque",
      "mes_x_rot_off", "mes_y_rot_off", "mes_z_rot_off", "avg_linear",
      "avg_torque", "min_linear", "min_torque", "x", "y", "z", "x_rot",
      "y_rot", "z_rot", "center_of_mass_loss", "center_loss",
      "surface_area_loss", "dimension_loss", "tube_exclusion_radius",
      "tube_exclusion_loss", "thruster_exclusion_radius",
      "thruster_exclusion_loss", "cardinality_loss",
      "thruster_flow_exclusion_loss">>

ToggleFieldSet == {ToggleFields[k] : k \in 1..Len(ToggleFields)}

\* the (enabled, value) pairs the settings panel is given here: field number k
\* holds k, or 2 * (k - 3), which makes one offset negative and one zero, or
\* 12 - k, which makes the radii negative as their sliders (-1.0..=1.0) allow
ToggleValues ==
    {[k \in 1..Len(ToggleFields) |-> k], [k \in 1..Len(ToggleFields) |-> 2 * (k - 3)],
     [k \in 1..Len(ToggleFields) |-> 12 - k]}

\* the sets of switched-off fields: none or one, all or all but one, and every
\* combination of the fields named mes_*_off
DisabledChoices ==
    {{}} \cup {{f} : f \in ToggleFieldSet}
    \cup {ToggleFieldSet} \cup {ToggleFieldSet \ {f} : f \in ToggleFieldSet}
    \cup SUBSET {"mes_x_off", "mes_y_off", "mes_z_off",
                 "mes_x_rot_off", "mes_y_rot_off", "mes_z_rot_off"}

ToggleableScoreSettings(disabled, values) ==
    [f \in ToggleFieldSet |->
        <<f \notin disabled, values[CHOOSE k \in 1..Len(ToggleFields) : ToggleFields[k] = f]>>]

ToggleChoices ==
    {ToggleableScoreSettings(disabled, values) :
        disabled \in DisabledChoices, values \in ToggleValues}

\* a flatten that gives the disabled mes_z_rot_off 0.0 like most terms
FlattenLosingSentinel(self) ==
    [mes_linear |-> IF self.mes_linear[1] THEN self.mes_linear[2] ELSE 0,
     mes_x_off |-> IF self.mes_x_off[1] THEN self.mes_x_off[2] ELSE -1,
     mes_y_off |-> IF self.mes_y_off[1] THEN self.mes_y_off[2] ELSE -1,
     mes_z_off |-> IF self.mes_z_off[1] THEN self.mes_z_off[2] ELSE -1,
     mes_torque |-> IF self.mes_torque[1] THEN self.mes_torque[2] ELSE 0,
     mes_x_rot_off |-> IF self.mes_x_rot_off[1] THEN self.mes_x_rot_off[2] ELSE -1,
     mes_y_rot_off |-> IF self.mes_y_rot_off[1] THEN self.mes_y_rot_off[2] ELSE -1,
     mes_z_rot_off |-> IF self.mes_z_rot_off[1] THEN self.mes_z_rot_off[2] ELSE 0,
     avg_linear |-> IF self.avg_linear[1] THEN self.avg_linear[2] ELSE 0,
     avg_torque |-> IF self.avg_torque[1] THEN self.avg_torque[2] ELSE 0,
     min_linear |-> IF self.min_linear[1] THEN self.min_linear[2] ELSE 0,
     min_torque |-> IF self.min_torque[1] THEN self.min_torque[2] ELSE 0,
     x |-> IF self.x[1] THEN self.x[2] ELSE 0,
     y |-> IF self.y[1] THEN self.y[2] ELSE 0,
     z |-> IF self.z[1] THEN self.z[2] ELSE 0,
     x_rot |-> IF self.x_rot[1] THEN self.x_rot[2] ELSE 0,
     y_rot |-> IF self.y_rot[1] THEN self.y_rot[2] ELSE 0,
     z_rot |-> IF self.z_rot[1] THEN self.z_rot[2] ELSE 0,
     center_of_mass_loss |-> IF self.center_of_mass_loss[1] THEN self.center_of_mass_loss[2] ELSE 0,
     center_loss |-> IF self.center_loss[1] THEN self.center_loss[2] ELSE 0,
     surface_area_score |-> IF self.surface_area_loss[1] THEN self.surface_area_loss[2] ELSE 0,
     dimension_loss |-> IF self.dimension_loss[1] THEN self.dimension_loss[2] ELSE 0,
     tube_exclusion_radius |-> IF self.tube_exclusion_radius[1] THEN self.tube_exclusion_radius[2] ELSE 0,
     tube_exclusion_loss |-> IF self.tube_exclusion_loss[1] THEN self.tube_exclusion_loss[2] ELSE 0,
     thruster_exclusion_radius |-> IF self.thruster_exclusion_radius[1] THEN self.thruster_exclusion_radius[2] ELSE 0,
     thruster_exclusion_loss |-> IF self.thruster_exclusion_loss[1] THEN self.thruster_exclusion_loss[2] ELSE 0,
     cardinality_loss |-> IF self.cardinality_loss[1] THEN self.cardinality_loss[2] ELSE 0,
     thruster_flow_exclusion_loss |-> IF self.thruster_flow_exclusion_loss[1] THEN self.thruster_flow_exclusion_loss[2] ELSE 0]

\* ToggleableScoreSettings::flatten: .0 of a pair is [1], .1 is [2]
flatten(self) ==
    [mes_linear |-> IF self.mes_linear[1] THEN self.mes_linear[2] ELSE 0,
     mes_x_off |-> IF self.mes_x_off[1] THEN self.mes_x_off[2] ELSE -1,
     mes_y_off |-> IF self.mes_y_off[1] THEN self.mes_y_off[2] ELSE -1,
     mes_z_off |-> IF self.mes_z_off[1] THEN self.mes_z_off[2] ELSE -1,
     mes_torque |-> IF self.mes_torque[1] THEN self.mes_torque[2] ELSE 0,
     mes_x_rot_off |-> IF self.mes_x_rot_off[1] THEN self.mes_x_rot_off[2] ELSE -1,
     mes_y_rot_off |-> IF self.mes_y_rot_off[1] THEN self.mes_y_rot_off[2] ELSE -1,
     mes_z_rot_off |-> IF self.mes_z_rot_off[1] THEN self.mes_z_rot_off[2] ELSE -1,
     avg_linear |-> IF self.avg_linear[1] THEN self.avg_linear[2] ELSE 0,
     avg_torque |-> IF self.avg_torque[1] THEN self.avg_torque[2] ELSE 0,
     min_linear |-> IF self.min_linear[1] THEN self.min_linear[2] ELSE 0,
     min_torque |-> IF self.min_torque[1] THEN self.min_torque[2] ELSE 0,
     x |-> IF self.x[1] THEN self.x[2] ELSE 0,
     y |-> IF self.y[1] THEN self.y[2] ELSE 0,
     z |-> IF self.z[1] THEN self.z[2] ELSE 0,
     x_rot |-> IF self.x_rot[1] THEN self.x_rot[2] ELSE 0,
     y_rot |-> IF self.y_rot[1] THEN self.y_rot[2] ELSE 0,
     z_rot |-> IF self.z_rot[1] THEN self.z_rot[2] ELSE 0,
     center_of_mass_loss |-> IF self.center_of_mass_loss[1] THEN self.center_of_mass_loss[2] ELSE 0,
     center_loss |-> IF self.center_loss[1] THEN self.center_loss[2] ELSE 0,
     surface_area_score |-> IF self.surface_area_loss[1] THEN self.surface_area_loss[2] ELSE 0,
     dimension_loss |-> IF self.dimension_loss[1] THEN self.dimension_loss[2] ELSE 0,
     tube_exclusion_radius |-> IF self.tube_exclusion_radius[1] THEN self.tube_exclusion_radius[2] ELSE 0,
     tube_exclusion_loss |-> IF self.tube_exclusion_loss[1] THEN self.tube_exclusion_loss[2] ELSE 0,
     thruster_exclusion_radius |-> IF self.thruster_exclusion_radius[1] THEN self.thruster_exclusion_radius[2] ELSE 0,
     thruster_exclusion_loss |-> IF self.thruster_exclusion_loss[1] THEN self.thruster_exclusion_loss[2] ELSE 0,
     cardinality_loss |-> IF self.cardinality_loss[1] THEN self.cardinality_loss[2] ELSE 0,
     thruster_flow_exclusion_loss |-> IF self.thruster_flow_exclusion_loss[1] THEN self.thruster_flow_exclusion_loss[2] ELSE 0]

\* the Axis of motor_math, in the order the result map is walked
Axes == <<"x", "y", "z", "x_rot", "y_rot", "z_rot">>
LinearAxes == {"x", "y", "z"}

\* the strengths axis_maximums reports, multiples of 3
AxisResults ==
    {[x |-> x, y |-> y, z |-> 3, x_rot |-> x_rot, y_rot |-> 6, z_rot |-> z_rot] :
        x \in {3, 6}, y \in {0, 9}, x_rot \in {3, 12}, z_rot \in {0, 3}}

\* heuristic::score, "Average and min"
RECURSIVE AverageAndMinFrom(_, _, _)
AverageAndMinFrom(result, k, acc) ==
    IF k > Len(Axes) THEN acc
    ELSE LET val == result[Axes[k]]
         IN AverageAndMinFrom(result, k + 1,
                IF Axes[k] \in LinearAxes
                THEN [acc EXCEPT !.avg_linear = @ + TruncDiv(val, 3),
                                 !.min_linear = IF val < @ THEN val ELSE @]
                ELSE [acc EXCEPT !.avg_torque = @ + TruncDiv(val, 3),
                                 !.min_torque = IF val < @ THEN val ELSE @])

AverageAndMin(result) ==
    AverageAndMinFrom(result, 1,
        [avg_linear |-> 0, avg_torque |-> 0, min_linear |-> INFINITY, min_torque |-> INFINITY])

\* let offset = match axis { ... }
MesOffset(axis, settings) ==
    CASE axis = "x" -> settings.mes_x_off
      [] axis = "y" -> settings.mes_y_off
      [] axis = "z" -> settings.mes_z_off
      [] axis = "x_rot" -> settings.mes_x_rot_off
      [] axis = "y_rot" -> settings.mes_y_rot_off
      [] axis = "z_rot" -> settings.mes_z_rot_off

\* a goal that replaces the strength as soon as the offset is not negative
MesGoalInclusive(offset, val) == IF offset >= 0 THEN offset ELSE val

\* let goal = if offset.re() > 0.0 { offset } else { val }
MesGoal(offset, val) == IF offset > 0 THEN offset ELSE val

\* heuristic::score, "Mean error squared"
RECURSIVE MeanErrorSquaredFrom(_, _, _, _)
MeanErrorSquaredFrom(result, settings, k, acc) ==
    IF k > Len(Axes) THEN acc
    ELSE LET val == result[Axes[k]]
             goal == MesGoal(MesOffset(Axes[k], settings), val)
         IN MeanErrorSquaredFrom(result, settings, k + 1,
                IF Axes[k] \in LinearAxes
                THEN [acc EXCEPT !.mes_linear = @ + (val - goal) * (val - goal)]
                ELSE [acc EXCEPT !.mes_torque = @ + (val - goal) * (val - goal)])

MeanErrorSquared(result, settings) ==
    MeanErrorSquaredFrom(result, settings, 1, [mes_linear |-> 0, mes_torque |-> 0])

\* the eight terms heuristic::score computes from the motor positions and
\* orientations, taken as they come
GeometryChoices ==
    {[center_of_mass_loss |-> 2, center_loss |-> 1, surface_area_score |-> 7,
      dimension_loss |-> 4, tube_exclusion_loss |-> 0, thruster_exclusion_loss |-> 3,
      thruster_flow_exclusion_loss |-> 5, cardinality_loss |-> 1],
     [center_of_mass_loss |-> 0, center_loss |-> 3, surface_area_score |-> 11,
      dimension_loss |-> 9, tube_exclusion_loss |-> 6, thruster_exclusion_loss |-> 0,
      thruster_flow_exclusion_loss |-> 8, cardinality_loss |-> 0]}

\* Lengths (positions and the two radii) are in hundredths: 0.17 is 17.
TubeHalfLength == 17

\* the motors handed to the scorer: a mirrored pair outside the tube, one motor
\* inside it, and three motors spread over the octants
MotorSets ==
    {<<[position |-> <<30, 20, 10>>, orientation |-> <<0, 1, 0>>],
       [position |-> <<-30, 20, 10>>, orientation |-> <<0, 1, 0>>]>>,
     <<[position |-> <<5, 5, 5>>, orientation |-> <<1, 0, 0>>]>>,
     <<[position |-> <<-50, -40, 60>>, orientation |-> <<0, 0, 1>>],
       [position |-> <<2, 0, -3>>, orientation |-> <<0, 1, 0>>],
       [position |-> <<90, 10, 0>>, orientation |-> <<1, 0, 0>>]>>}

\* D::min and D::max
FMin(a, b) == IF IsNaN(a) THEN b ELSE IF IsNaN(b) THEN a ELSE IF a < b THEN a ELSE b
FMax(a, b) == IF IsNaN(a) THEN b ELSE IF IsNaN(b) THEN a ELSE IF a > b THEN a ELSE b

\* let mut min = vector![-tube_exclusion_radius, -0.17, -tube_exclusion_radius]
\* and max likewise
AabbSeed(settings) ==
    [min |-> <<-settings.tube_exclusion_radius, -TubeHalfLength,
               -settings.tube_exclusion_radius>>,
     max |-> <<settings.tube_exclusion_radius, TubeHalfLength,
               settings.tube_exclusion_radius>>]

\* heuristic::score, the loop over the motors: min and max widened per motor
RECURSIVE AabbFrom(_, _, _)
AabbFrom(motors, k, box) ==
    IF k > Len(motors) THEN box
    ELSE AabbFrom(motors, k + 1,
            [min |-> Vec([c \in 1..3 |-> FMin(box.min[c], motors[k].position[c])]),
             max |-> Vec([c \in 1..3 |-> FMax(box.max[c], motors[k].position[c])])])

Aabb(motors, settings) == AabbFrom(motors, 1, AabbSeed(settings))

\* heuristic::score: the ScoreResult<Unscaled> it builds
ScoreResultUnscaled(result, geometry, settings) ==
    LET averages == AverageAndMin(result)
        errors == MeanErrorSquared(result, settings)
    IN [mes_linear |-> errors.mes_linear,
        mes_torque |-> errors.mes_torque,
        avg_linear |-> averages.avg_linear,
        avg_torque |-> averages.avg_torque,
        min_linear |-> averages.min_linear,
        min_torque |-> averages.min_torque,
        x |-> result.x,
        y |-> result.y,
        z |-> result.z,
        x_rot |-> result.x_rot,
        y_rot |-> result.y_rot,
        z_rot |-> result.z_rot,
        center_of_mass_loss |-> geometry.center_of_mass_loss,
        center_loss |-> geometry.center_loss,
        surface_area_score |-> geometry.surface_area_score,
        dimension_loss |-> geometry.dimension_loss,
        tube_exclusion_loss |-> geometry.tube_exclusion_loss,
        thruster_exclusion_loss |-> geometry.thruster_exclusion_loss,
        thruster_flow_exclusion_loss |-> geometry.thruster_flow_exclusion_loss,
        cardinality_loss |-> geometry.cardinality_loss]

\* a scale that pairs the terms x and y with each other's weight
ScaleCrossed(self, settings) ==
    [x |-> FMul(settings.y, self.x),
     y |-> FMul(settings.x, self.y),
     z |-> FMul(settings.z, self.z),
     x_rot |-> FMul(settings.x_rot, self.x_rot),
     y_rot |-> FMul(settings.y_rot, self.y_rot),
     z_rot |-> FMul(settings.z_rot, self.z_rot),
     mes_linear |-> FMul(settings.mes_linear, self.mes_linear),
     mes_torque |-> FMul(settings.mes_torque, self.mes_torque),
     min_linear |-> FMul(settings.min_linear, self.min_linear),
     min_torque |-> FMul(settings.min_torque, self.min_torque),
     avg_linear |-> FMul(settings.avg_linear, self.avg_linear),
     avg_torque |-> FMul(settings.avg_torque, self.avg_torque),
     center_of_mass_loss |-> FMul(settings.center_of_mass_loss, self.center_of_mass_loss),
     center_loss |-> FMul(settings.center_loss, self.center_loss),
     surface_area_score |-> FMul(settings.surface_area_score, self.surface_area_score),
     dimension_loss |-> FMul(settings.dimension_loss, self.dimension_loss),
     tube_exclusion_loss |-> FMul(settings.tube_exclusion_loss, self.tube_exclusion_loss),
     thruster_exclusion_loss |-> FMul(settings.thruster_exclusion_loss, self.thruster_exclusion_loss),
     thruster_flow_exclusion_loss |-> FMul(settings.thruster_flow_exclusion_loss, self.thruster_flow_exclusion_loss),
     cardinality_loss |-> FMul(settings.cardinality_loss, self.cardinality_loss)]

\* ScoreResult<Unscaled>::scale, all twenty terms
Scale(self, settings) ==
    [x |-> FMul(settings.x, self.x),
     y |-> FMul(settings.y, self.y),
     z |-> FMul(settings.z, self.z),
     x_rot |-> FMul(settings.x_rot, self.x_rot),
     y_rot |-> FMul(settings.y_rot, self.y_rot),
     z_rot |-> FMul(settings.z_rot, self.z_rot),
     mes_linear |-> FMul(settings.mes_linear, self.mes_linear),
     mes_torque |-> FMul(settings.mes_torque, self.mes_torque),
     min_linear |-> FMul(settings.min_linear, self.min_linear),
     min_torque |-> FMul(settings.min_torque, self.min_torque),
     avg_linear |-> FMul(settings.avg_linear, self.avg_linear),
     avg_torque |-> FMul(settings.avg_torque, self.avg_torque),
     center_of_mass_loss |-> FMul(settings.center_of_mass_loss, self.center_of_mass_loss),
     center_loss |-> FMul(settings.center_loss, self.center_loss),
     surface_area_score |-> FMul(settings.surface_area_score, self.surface_area_score),
     dimension_loss |-> FMul(settings.dimension_loss, self.dimension_loss),
     tube_exclusion_loss |-> FMul(settings.tube_exclusion_loss, self.tube_exclusion_loss),
     thruster_exclusion_loss |-> FMul(settings.thruster_exclusion_loss, self.thruster_exclusion_loss),
     thruster_flow_exclusion_loss |-> FMul(settings.thruster_flow_exclusion_loss, self.thruster_flow_exclusion_loss),
     cardinality_loss |-> FMul(settings.cardinality_loss, self.cardinality_loss)]

\* ScoreResult<Scaled>::score
ScaledScore(self) ==
    self.x
    + self.y
    + self.z
    + self.x_rot
    + self.y_rot
    + self.z_rot
    + self.mes_linear
    + self.mes_torque
    + self.min_linear
    + self.min_torque
    + self.avg_linear
    + self.avg_torque
    + self.center_of_mass_loss
    + self.center_loss
    + self.surface_area_score
    + self.dimension_loss
    + self.tube_exclusion_loss
    + self.thruster_exclusion_loss
    + self.thruster_flow_exclusion_loss
    + self.cardinality_loss

\* heuristic::score: (result.score(settings), result)
heuristic_score(result, geometry, settings) ==
    [score |-> ScaledScore(Scale(ScoreResultUnscaled(result, geometry, settings), settings)),
     breakdown |-> ScoreResultUnscaled(result, geometry, settings)]

\* the settings panel as the application starts with it
ScoreInit ==
    /\ calc \in {[stage |-> "toggles", toggles |-> toggles] : toggles \in ToggleChoices}
    /\ is_async = FALSE
    /\ config = "X3d"
    /\ heuristic = ScoreSettingsDefault
    /\ points = <<>>
    /\ motor_data = 1
    /\ out = <<>>
    /\ steps = 0
    /\ last_op = [name |-> "new", n |-> 0, h |-> ScoreSettingsDefault, stepped |-> FALSE]
    /\ stagnation = <<>>
    /\ peer = <<>>

\* score_settings.0.flatten(), as handle_heuristic_change and handle_reset call it
ScoreFlatten ==
    /\ calc.stage = "toggles"
    /\ calc' = [stage |-> "settings", toggles |-> calc.toggles,
                settings |-> flatten(calc.toggles)]
    /\ UNCHANGED <<is_async, config, heuristic, points, motor_data, out, steps, last_op,
                   stagnation, peer>>

\* heuristic::score(result, motor_config, settings) on the flattened settings
ScoreEvaluate(result, geometry, motors) ==
    /\ calc.stage = "settings"
    /\ calc' = [stage |-> "scored", toggles |-> calc.toggles, settings |-> calc.settings,
                result |-> result,
                motors |-> motors,
                aabb |-> Aabb(motors, calc.settings),
                score |-> heuristic_score(result, geometry, calc.settings).score,
                breakdown |-> heuristic_score(result, geometry, calc.settings).breakdown]
    /\ UNCHANGED <<is_async, config, heuristic, points, motor_data, out, steps, last_op,
                   stagnation, peer>>

ScoreNext ==
    \/ ScoreFlatten
    \/ \E result \in AxisResults, geometry \in GeometryChoices, motors \in MotorSets :
        ScoreEvaluate(result, geometry, motors)

SpecScore == ScoreInit /\ [][ScoreNext]_vars

\* ------------------------------------------- motors, tables and the mixer
\* Currents and raw mixes are exact fractions <<numerator, denominator>> with a
\* positive denominator; speeds and movement components are halves (1.0 = 2),
\* table currents are whole amperes and forces are hundredths of a kgf.
SpeedUnit == 2

\* the box sizes and seed orientations a MotorConfig is built with
BoxSizes == {2, 4, 6}
SeedVectors == {<<0, 0, 5>>, <<3, 4, 0>>, <<-3, 0, 4>>, <<2, -1, 2>>}

\* MotorConfig::compute_motors: the eight motors by id, each the fold of its
\* reflections over (frt_position, frt_orientation)
compute_motors(width, length, height, seed) ==
    Vec([m \in 1..Len(X3dMotors) |->
        [id |-> X3dMotors[m][1],
         position |-> TransformAll(X3dMotors[m][2],
                                   <<width \div 2, length \div 2, height \div 2>>),
         orientation |-> TransformAll(X3dMotors[m][2], seed)]])

\* DEFAULT_MOTOR_CW and DEFAULT_MOTOR_CCW
DEFAULT_MOTOR_CW == [sign |-> 1]
DEFAULT_MOTOR_CCW == [sign |-> -1]

\* From<MotorId> for MotorSettings, one motor mistaken (FrontLeftBottom CW)
MotorSettingsFromMistaken(value) ==
    CASE value = "FrontLeftBottom" -> DEFAULT_MOTOR_CW
      [] value = "FrontLeftTop" -> DEFAULT_MOTOR_CW
      [] value = "FrontRightBottom" -> DEFAULT_MOTOR_CW
      [] value = "FrontRightTop" -> DEFAULT_MOTOR_CCW
      [] value = "BackLeftBottom" -> DEFAULT_MOTOR_CW
      [] value = "BackLeftTop" -> DEFAULT_MOTOR_CCW
      [] value = "BackRightBottom" -> DEFAULT_MOTOR_CCW
      [] value = "BackRightTop" -> DEFAULT_MOTOR_CW

\* From<MotorId> for MotorSettings, through MOTOR_FLB .. MOTOR_BRT
MotorSettingsFrom(value) ==
    CASE value = "FrontLeftBottom" -> DEFAULT_MOTOR_CCW
      [] value = "FrontLeftTop" -> DEFAULT_MOTOR_CW
      [] value = "FrontRightBottom" -> DEFAULT_MOTOR_CW
      [] value = "FrontRightTop" -> DEFAULT_MOTOR_CCW
      [] value = "BackLeftBottom" -> DEFAULT_MOTOR_CW
      [] value = "BackLeftTop" -> DEFAULT_MOTOR_CCW
      [] value = "BackRightBottom" -> DEFAULT_MOTOR_CCW
      [] value = "BackRightTop" -> DEFAULT_MOTOR_CW

\* MotorData after sort(): forward and backward records by rising current.
\* The first table reaches 25 A both ways, the second 2 A forward and 3 A
\* backward, the third holds one record each way.
MotorTables ==
    {[forward |-> <<[current |-> 0, force |-> 0], [current |-> 1, force |-> 40],
                    [current |-> 3, force |-> 110], [current |-> 10, force |-> 300],
                    [current |-> 25, force |-> 520]>>,
      backward |-> <<[current |-> 0, force |-> 0], [current |-> 2, force |-> -60],
                     [current |-> 12, force |-> -260], [current |-> 25, force |-> -400]>>],
     [forward |-> <<[current |-> 0, force |-> 0], [current |-> 1, force |-> 40],
                    [current |-> 2, force |-> 80]>>,
      backward |-> <<[current |-> 0, force |-> 0], [current |-> 3, force |-> -90]>>],
     [forward |-> <<[current |-> 1, force |-> 40]>>,
      backward |-> <<[current |-> 1, force |-> -30]>>]}

\* the signed currents looked up directly
LookupCurrents ==
    {<<n, d>> : n \in {-60, -25, -7, -3, 0, 1, 4, 5, 20, 26, 51}, d \in {1, 2, 9}}

\* slice::partition_point(|x| x.current < current) on a slice sorted by
\* current: the number of leading records below current = num / den
RECURSIVE PartitionPointFrom(_, _, _, _)
PartitionPointFrom(data_set, k, num, den) ==
    IF k > Len(data_set) THEN Len(data_set)
    ELSE IF data_set[k].current * den < num
         THEN PartitionPointFrom(data_set, k + 1, num, den)
         ELSE k - 1

\* MotorData::lookup_by_current(signed_current), signed_current = num / den.
\* data_set[idx] with idx = data_set.len() is an index out of bounds: a panic.
lookup_by_current(self, num, den) ==
    LET data_set == IF num >= 0 THEN self.forward ELSE self.backward
        idx == PartitionPointFrom(data_set, 1, FAbs(num), den)
    IN  IF idx >= Len(data_set)
        THEN [panicked |-> TRUE]
        ELSE [panicked |-> FALSE, record |-> data_set[idx + 1]]

\* calculate_thrust_limits: scale = 20 / (1.0*4 + 1.25*4) = 20/9, the lookups
\* of 1.0 * scale and -1.25 * scale, collected as (forward, reverse)
calculate_thrust_limits(table) ==
    LET forward == lookup_by_current(table, 20, 9)
        reverse == lookup_by_current(table, -25, 9)
    IN  IF forward.panicked \/ reverse.panicked
        THEN [panicked |-> TRUE]
        ELSE [panicked |-> FALSE, forward |-> forward.record.force,
              reverse |-> reverse.record.force]

\* MAX_AMPERAGE and the order mix_movement walks the motors in
MAX_AMPERAGE == 20
drive_ids ==
    <<"FrontLeftBottom", "FrontLeftTop", "FrontRightBottom", "FrontRightTop",
      "BackLeftBottom", "BackLeftTop", "BackRightBottom", "BackRightTop">>

\* Movement values, in halves
Movements ==
    {[x |-> x, y |-> y, z |-> z, x_rot |-> x_rot, y_rot |-> 0, z_rot |-> z_rot] :
        x \in {-2, 0, 1, 4}, y \in {-2, 0, 1, 4}, z \in {-2, 0, 1, 4},
        x_rot \in {0, 1}, z_rot \in {0, -3}}

\* the motor_mixer functions mix_movement is called with: the sign table of
\* the commented-out match, the surge component for every motor, and the x
\* component for one motor alone
Mixers == {"table", "surge", "single"}

motor_mixer(mixer, motor_id, mov) ==
    CASE mixer = "table" ->
           (CASE motor_id = "FrontLeftBottom" ->
                   -mov.x - mov.y + mov.z + mov.x_rot + mov.y_rot - mov.z_rot
              [] motor_id = "FrontLeftTop" ->
                   -mov.x - mov.y - mov.z - mov.x_rot - mov.y_rot - mov.z_rot
              [] motor_id = "FrontRightBottom" ->
                   mov.x - mov.y + mov.z + mov.x_rot - mov.y_rot + mov.z_rot
              [] motor_id = "FrontRightTop" ->
                   mov.x - mov.y - mov.z - mov.x_rot + mov.y_rot + mov.z_rot
              [] motor_id = "BackLeftBottom" ->
                   -mov.x + mov.y + mov.z - mov.x_rot + mov.y_rot + mov.z_rot
              [] motor_id = "BackLeftTop" ->
                   -mov.x + mov.y - mov.z + mov.x_rot - mov.y_rot + mov.z_rot
              [] motor_id = "BackRightBottom" ->
                   mov.x + mov.y + mov.z - mov.x_rot - mov.y_rot - mov.z_rot
              [] motor_id = "BackRightTop" ->
                   mov.x + mov.y - mov.z + mov.x_rot + mov.y_rot - mov.z_rot)
      [] mixer = "surge" -> mov.y
      [] mixer = "single" -> IF motor_id = "FrontRightTop" THEN mov.x ELSE 0

\* skew: 1.0 for speed >= 0, else 1.25, in quarters
SkewUnit == 4
Skew(speed) == IF speed >= 0 THEN 4 ELSE 5

\* raw_mix values are speed * skew * direction, in units of 1 / RawUnit
RawUnit == SpeedUnit * SkewUnit

\* raw_mix: speed * skew * direction for every drive id
RawMix(mov, mixer) ==
    Vec([m \in 1..Len(drive_ids) |->
        motor_mixer(mixer, drive_ids[m], mov)
            * Skew(motor_mixer(mixer, drive_ids[m], mov))
            * MotorSettingsFrom(drive_ids[m]).sign])

\* raw_mix.values().map(|it| it.abs()).sum()
RECURSIVE TotalRawFrom(_, _)
TotalRawFrom(raw_mix, k) ==
    IF k > Len(raw_mix) THEN 0 ELSE FAbs(raw_mix[k]) + TotalRawFrom(raw_mix, k + 1)

TotalRaw(raw_mix) == TotalRawFrom(raw_mix, 1)

\* scale_raw with the rescaling left out
ScaleRawNever(total_raw, max_raw) == <<1, 1>>

\* scale_raw: max_raw / total_raw when total_raw > max_raw, else 1.0
ScaleRaw(total_raw, max_raw) ==
    IF total_raw > max_raw * RawUnit THEN <<max_raw * RawUnit, total_raw>> ELSE <<1, 1>>

\* value * scale_raw * motor_amperage with motor_amperage = MAX_AMPERAGE / max_raw
Currents(raw_mix, scale_raw) ==
    Vec([m \in 1..Len(raw_mix) |->
        <<raw_mix[m] * scale_raw[1] * MAX_AMPERAGE,
          RawUnit * scale_raw[2] * Len(raw_mix)>>])

\* mix_movement: the raw mix, the currents handed to the table and the forces
\* collected; a lookup that panics ends the call
mix_movement(mov, table, mixer) ==
    LET raw_mix == RawMix(mov, mixer)
        currents == Currents(raw_mix, ScaleRaw(TotalRaw(raw_mix), Len(raw_mix)))
        found == [m \in 1..Len(currents) |->
                     lookup_by_current(table, currents[m][1], currents[m][2])]
    IN  [raw_mix |-> raw_mix,
         currents |-> currents,
         panicked |-> \E m \in 1..Len(currents) : found[m].panicked,
         forces |-> IF \E m \in 1..Len(currents) : found[m].panicked THEN <<>>
                    ELSE Vec([m \in 1..Len(currents) |-> found[m].record.force])]

\* the half-set sizes and parameter columns of the symmetrical parameterisation
HalfCounts == {1, 2, 3}
ParameterColumns ==
    {<<2, 1, 0, 0, 5, 0>>, <<1, -3, 2, 3, 4, 0>>, <<0, 2, -1, -3, 0, 4>>, <<4, 4, 3, 5, 0, 0>>}

RECURSIVE PointsOf(_)
PointsOf(k) ==
    IF k = 0 THEN {<<>>}
    ELSE {point \o column : point \in PointsOf(k - 1), column \in ParameterColumns}

\* the bench the pure functions are called from
MotorsInit ==
    /\ calc = [stage |-> "bench"]
    /\ is_async = FALSE
    /\ config = "X3d"
    /\ heuristic = ScoreSettingsDefault
    /\ points = <<>>
    /\ motor_data = 1
    /\ out = <<>>
    /\ steps = 0
    /\ last_op = [name |-> "new", n |-> 0, h |-> ScoreSettingsDefault, stepped |-> FALSE]
    /\ stagnation = <<>>
    /\ peer = <<>>

\* MotorConfig { seed, width, length, height }.compute_motors()
ComputeMotors(width, length, height, seed) ==
    /\ calc.stage = "bench"
    /\ calc' = [stage |-> "compute_motors", width |-> width, length |-> length,
                height |-> height, seed |-> seed,
                motors |-> compute_motors(width, length, height, seed)]
    /\ UNCHANGED <<is_async, config, heuristic, points, motor_data, out, steps, last_op,
                   stagnation, peer>>

\* SymerticalOptimization::<k>.motor_config(point)
SymmetricalConfig(k, point) ==
    /\ calc.stage = "bench"
    /\ calc' = [stage |-> "motor_config", k |-> k, point |-> point,
                motors |-> SymmetricalMotors(point, k)]
    /\ UNCHANGED <<is_async, config, heuristic, points, motor_data, out, steps, last_op,
                   stagnation, peer>>

\* motor_data.lookup_by_current(signed_current)
LookupByCurrent(table, current) ==
    /\ calc.stage = "bench"
    /\ calc' = [stage |-> "lookup", table |-> table, current |-> current,
                found |-> lookup_by_current(table, current[1], current[2])]
    /\ UNCHANGED <<is_async, config, heuristic, points, motor_data, out, steps, last_op,
                   stagnation, peer>>

\* calculate_thrust_limits(motor_data)
ThrustLimits(table) ==
    /\ calc.stage = "bench"
    /\ calc' = [stage |-> "thrust_limits", table |-> table,
                limits |-> calculate_thrust_limits(table)]
    /\ UNCHANGED <<is_async, config, heuristic, points, motor_data, out, steps, last_op,
                   stagnation, peer>>

\* mix_movement(mov, motor_data, motor_mixer)
MixMovement(mov, table, mixer) ==
    /\ calc.stage = "bench"
    /\ calc' = [stage |-> "mix_movement", mov |-> mov, table |-> table, mixer |-> mixer,
                mix |-> mix_movement(mov, table, mixer)]
    /\ UNCHANGED <<is_async, config, heuristic, points, motor_data, out, steps, last_op,
                   stagnation, peer>>

MotorsNext ==
    \/ \E width \in BoxSizes, length \in BoxSizes, height \in BoxSizes, seed \in SeedVectors :
        ComputeMotors(width, length, height, seed)
    \/ \E k \in HalfCounts : \E point \in PointsOf(k) : SymmetricalConfig(k, point)
    \/ \E table \in MotorTables, current \in LookupCurrents : LookupByCurrent(table, current)
    \/ \E table \in MotorTables : ThrustLimits(table)
    \/ \E mov \in Movements, table \in MotorTables, mixer \in Mixers :
        MixMovement(mov, table, mixer)

SpecMotors == MotorsInit /\ [][MotorsNext]_vars

\* ------------------------------------- the multi-start loop of ascent_general
\* The loop reads two things of every Ascent: old_score and the norm of the
\* gradient.  A seed carries the scores and gradients its ascent goes through
\* as a trace: the score starts at score and rises by rise a step, the gradient
\* norm (hundredths) is norm until step settles and 0 from then on.  steps is
\* the loop's counter.
CRITICAL_POINT_EPSILON == 10

ScoreTraces ==
    {[score |-> -100, rise |-> 0, norm |-> 400, settles |-> 99],
     [score |-> 100, rise |-> 0, norm |-> 400, settles |-> 99],
     [score |-> 0, rise |-> 0, norm |-> 400, settles |-> 99],
     [score |-> 100, rise |-> 10, norm |-> 400, settles |-> 99],
     [score |-> -500, rise |-> 10, norm |-> 400, settles |-> 99],
     [score |-> 100, rise |-> -1, norm |-> 400, settles |-> 99],
     [score |-> -100, rise |-> 0, norm |-> 400, settles |-> 3],
     [score |-> 100, rise |-> 0, norm |-> 5, settles |-> 99],
     [score |-> NAN, rise |-> 0, norm |-> 400, settles |-> 99]}

\* the score and the squared gradient norm of a trace at a step
TraceScore(trace, time) ==
    IF IsFinite(trace.score) THEN trace.score + trace.rise * time ELSE trace.score

TraceNormSquared(trace, time) ==
    IF time >= trace.settles THEN 0 ELSE trace.norm * trace.norm

\* OptimizationPoint::new, with the seed's trace and the history of its scores:
\* seen.best is the highest score so far, seen.since the counter it came at
OptimizationPointNew(id, trace) ==
    [id |-> id, trace |-> trace, time |-> 0,
     fountier_threshold |-> <<NEG_INFINITY, 0>>,
     seen |-> [best |-> NEG_INFINITY, since |-> 0]]

\* initial_points(count) of ascent_general
AscentInitialPoints(count) ==
    {Vec([id \in 1..count |-> OptimizationPointNew(id, traces[id])]) :
        traces \in [1..count -> ScoreTraces]}

\* gradient_ascent for one point: time grows by one, fountier_threshold is
\* carried over (..old_point), the score and gradient are those of the step
gradient_ascent(old_point) ==
    [old_point |-> old_point,
     new_point |-> [old_point EXCEPT !.time = old_point.time + 1],
     old_score |-> TraceScore(old_point.trace, old_point.time),
     gradient_norm_squared |-> TraceNormSquared(old_point.trace, old_point.time)]

\* if fountier_threshold.0 * 1.01 < old_score { fountier_threshold = (old_score, counter) }
Refreshed(result, counter) ==
    IF FLt(FMulRatio(result.new_point.fountier_threshold[1], RatioNum),
           FMulRatio(result.old_score, RatioDen))
    THEN [result EXCEPT !.new_point.fountier_threshold = <<result.old_score, counter>>]
    ELSE result

\* gradient.norm_squared() < EPSILON * EPSILON || counter - fountier_threshold.1 > 25
Completes(result, counter) ==
    \/ result.gradient_norm_squared < CRITICAL_POINT_EPSILON * CRITICAL_POINT_EPSILON
    \/ counter - result.new_point.fountier_threshold[2] > 25

\* the history of a seed's scores after a step
Seen(result, counter) ==
    IF FLt(result.old_point.seen.best, result.old_score)
    THEN [result EXCEPT !.new_point.seen = [best |-> result.old_score, since |-> counter]]
    ELSE result

\* the for loop over the results: completed_points and remaining_points
RECURSIVE LoopOver(_, _, _, _, _)
LoopOver(pts, k, counter, completed_points, remaining_points) ==
    IF k > Len(pts)
    THEN [completed_points |-> completed_points, remaining_points |-> remaining_points]
    ELSE IF Completes(Refreshed(Seen(gradient_ascent(pts[k]), counter), counter), counter)
         THEN LoopOver(pts, k + 1, counter,
                       Append(completed_points,
                              [Refreshed(Seen(gradient_ascent(pts[k]), counter), counter)
                                  EXCEPT !.old_point = pts[k].id]),
                       remaining_points)
         ELSE LoopOver(pts, k + 1, counter, completed_points,
                       Append(remaining_points,
                              Refreshed(Seen(gradient_ascent(pts[k]), counter),
                                        counter).new_point))

\* the program before main runs
AscentInit ==
    /\ calc = [stage |-> "start"]
    /\ is_async = FALSE
    /\ config = "Unconstrained"
    /\ heuristic = ScoreSettingsDefault
    /\ points = <<>>
    /\ motor_data = 1
    /\ out = <<>>
    /\ steps = 0
    /\ last_op = [name |-> "new", n |-> 0, h |-> ScoreSettingsDefault, stepped |-> FALSE]
    /\ stagnation = <<>>
    /\ peer = <<>>

\* main up to the loop: points = initial_points(..), completed_points = vec![],
\* counter = 0
AscentMain(count) ==
    /\ calc.stage = "start"
    /\ \E pts \in AscentInitialPoints(count) :
        calc' = [stage |-> "loop", points |-> pts, completed_points |-> <<>>]
    /\ steps' = 0
    /\ UNCHANGED <<is_async, config, heuristic, points, motor_data, out, last_op,
                   stagnation, peer>>

\* one turn of while !points.is_empty() { .. counter += 1 }
AscentTurn ==
    /\ calc.stage = "loop"
    /\ calc.points # <<>>
    /\ steps < MaxSteps
    /\ calc' = [stage |-> "loop",
                points |-> LoopOver(calc.points, 1, steps, calc.completed_points,
                                    <<>>).remaining_points,
                completed_points |-> LoopOver(calc.points, 1, steps, calc.completed_points,
                                              <<>>).completed_points]
    /\ steps' = steps + 1
    /\ UNCHANGED <<is_async, config, heuristic, points, motor_data, out, last_op,
                   stagnation, peer>>

\* the loop left with points empty: main goes on to report completed_points
AscentDone ==
    /\ calc.stage = "loop"
    /\ calc.points = <<>>
    /\ calc' = [stage |-> "done",
                completed_points |-> calc.completed_points]
    /\ UNCHANGED <<is_async, config, heuristic, points, motor_data, out, steps, last_op,
                   stagnation, peer>>

AscentNext ==
    \/ \E count \in 0..MaxPoints : AscentMain(count)
    \/ AscentTurn
    \/ AscentDone

\* a turn of the loop, seen by the counter alone
TurnTaken == calc.stage = "loop" /\ calc.points # <<>> /\ steps < MaxSteps
             /\ steps' = steps + 1

\* the loop keeps running while points is not empty
SpecAscent == AscentInit /\ [][AscentNext]_vars /\ WF_steps(TurnTaken)

\* ---------------------------------------------------------------- claims
\* the entry of a population that carries the seed id (the entries are unique
\* in every reachable population)
EntryOf(pts, id) == pts[CHOOSE i \in 1..Len(pts) : pts[i].id = id]
Ids(pts) == {pts[i].id : i \in 1..Len(pts)}

\* C1: in both arenas the outputs of one step call are ordered by score
\* descending: every output scores at least as high as the one after it (read
\* in the total order the sort uses, so that a NaN score is not held against it).
C1_OutputsDescending ==
    \A i \in 1..(Len(out) - 1) : total_cmp(out[i].score, out[i + 1].score) >= 0

\* C2: no stale scores: the score field of every output of a step is the score
\* of the parameters carried in that same output (two NaN scores count as the
\* same score).
C2_NoStaleScores ==
    \A i \in 1..Len(out) :
        LET fresh == evaluate(config, out[i].parameters, heuristic, motor_data).score
        IN \/ out[i].score = fresh
           \/ IsNaN(out[i].score) /\ IsNaN(fresh)

\* C3: in the serial arena a seed whose score has not improved by more than
\* 1 % for 26 consecutive steps is done after that step.
C3_StagnantSeedIsDone ==
    ~is_async =>
        \A i \in 1..Len(points) :
            stagnation[points[i].id].count >= frontier_time_limit + 1
                => points[i].state.done

\* a serial seed that improved at first and then went 26 steps without
\* improving, and is done
C3_Witness ==
    /\ ~is_async
    /\ \E i \in 1..Len(points) :
        /\ stagnation[points[i].id].count = frontier_time_limit + 1
        /\ IsFinite(stagnation[points[i].id].best)
        /\ points[i].state.done

\* C4: once a seed is done, a later step leaves its point, moments, time,
\* frontier_threshold, done flag and stored score as they are; only its place
\* in the population may change.
C4_DoneSeedsFrozen ==
    [][last_op'.name = "step" =>
        \A i \in 1..Len(points) :
            points[i].state.done =>
                \E j \in 1..Len(points') :
                    /\ points'[j].id = points[i].id
                    /\ points'[j].state = points[i].state
                    /\ points'[j].score = points[i].score]_vars

\* a done seed that the arena has stepped over since it became done
C4_Witness ==
    \E i \in 1..Len(points) :
        /\ points[i].state.done
        /\ last_op.name = "step"
        /\ steps > points[i].state.time

\* C5: in every Adam step frontier_threshold becomes (score, time) exactly when
\* the raw score exceeds frontier_threshold.0 * frontier_ratio_threshold, the
\* initial (-infinity, 0) and negative scores included, and stays as it was
\* otherwise.
C5_FrontierRefreshedOnImprovement ==
    [][last_op'.name = "step" =>
        \A i \in 1..Len(points) :
            ~points[i].state.done =>
                LET old == points[i].state
                    new == EntryOf(points', points[i].id)
                IN new.state.frontier_threshold =
                       IF ScoreImproved(old.frontier_threshold[1], new.score)
                       THEN <<new.score, new.state.time>>
                       ELSE old.frontier_threshold]_vars

\* C6: in the data-parallel arena a seed with time - frontier_threshold.time >
\* frontier_time_limit after a step is marked done.
C6_AsyncStagnantSeedIsDone ==
    is_async =>
        \A i \in 1..Len(points) :
            points[i].state.time - points[i].state.frontier_threshold[2] > frontier_time_limit
                => points[i].state.done

\* gradient.norm_squared() < CRITICAL_POINT_EPSILON * CRITICAL_POINT_EPSILON,
\* epsilon 0.1, for a gradient in score per lattice step
Stationary(grad) == ~HasNaN(grad) /\ Dot(grad, grad) * Unit * Unit * 100 < 1

\* C7: a seed whose gradient at a step has squared norm below
\* critical_point_epsilon squared is done after that step.
C7_StationarySeedIsDone ==
    [][last_op'.name = "step" =>
        \A i \in 1..Len(points) :
            (/\ ~points[i].state.done
             /\ Stationary(gradient(config, points[i].state.point, heuristic, motor_data)))
                => EntryOf(points', points[i].id).state.done]_vars

\* C8: a serial and a data-parallel arena started from the same seeds with the
\* same heuristic and motor data and stepped the same number of times hold, for
\* every corresponding seed, the same score, point and done flag.
C8_SerialParallelAgree ==
    /\ Ids(points) = Ids(peer)
    /\ \A id \in Ids(points) :
        /\ EntryOf(points, id).score = EntryOf(peer, id).score
        /\ EntryOf(points, id).state.point = EntryOf(peer, id).state.point
        /\ EntryOf(points, id).state.done = EntryOf(peer, id).state.done

\* C9: step preserves the population: after reset(n, h) and any number of
\* steps the arena holds exactly n seeds, each seed of the reset exactly once.
C9_StepPreservesPopulation ==
    last_op.name \in {"reset", "step"} =>
        /\ Len(points) = last_op.n
        /\ Ids(points) = 1..last_op.n

\* a population of two seeds with equal scores, and one whose seeds the sort
\* has put in another order than the reset's
C9_Witness ==
    /\ last_op.name = "step"
    /\ Len(points) = MaxPoints
    /\ steps >= 2
    /\ \/ points[1].score = points[2].score
       \/ points[1].id # 1

\* C10: reset(n, h) leaves exactly n seeds, each with score -infinity, zero
\* moments, time 0, frontier_threshold (-infinity, 0) and done false, for every
\* n >= 0 and every parameterisation.
C10_ResetIsFresh ==
    last_op.name = "reset" =>
        /\ Len(points) = last_op.n
        /\ \A i \in 1..Len(points) :
            /\ points[i].score = NEG_INFINITY
            /\ points[i].state.first_moment = Zeros(DIMENSIONALITY(config))
            /\ points[i].state.second_moment = Zeros(DIMENSIONALITY(config))
            /\ points[i].state.time = 0
            /\ points[i].state.frontier_threshold = <<NEG_INFINITY, 0>>
            /\ points[i].state.done = FALSE

\* a reset to the largest population
C10_Witness ==
    /\ last_op.name = "reset"
    /\ last_op.n = MaxPoints
    /\ Len(points) = MaxPoints
    /\ points[MaxPoints].state.time = 0

\* C11: a reset after any sequence of steps discards the previous population:
\* what the arena holds afterwards is one of the parameterisation's fresh
\* populations of point_count seeds, nothing of the old points, moments, times,
\* frontier thresholds, done flags or scores, and the heuristic is the given one.
C11_ResetDiscardsPopulation ==
    last_op.name = "reset" =>
        /\ points \in ResetPoints(config, last_op.n)
        /\ ~Stepped(points)
        /\ \A i \in 1..Len(points) : ~points[i].state.done
        /\ heuristic = last_op.h

\* a reset that replaced a stepped population and installed another heuristic
\* than the default one
C11_Witness ==
    /\ last_op.name = "reset"
    /\ last_op.stepped
    /\ last_op.n > 0
    /\ last_op.h # ScoreSettingsDefault
    /\ heuristic = last_op.h

\* C12: a seed whose score is NaN is left out of the records a step returns
\* while it stays in the population: the output holds no record with a NaN
\* score and has as many records as the population has seeds that score a number.
C12_NaNSeedsDroppedFromOutput ==
    last_op.name = "step" =>
        /\ \A i \in 1..Len(out) : ~IsNaN(out[i].score)
        /\ Len(out) = Cardinality({i \in 1..Len(points) : ~IsNaN(points[i].score)})
        /\ Len(points) = last_op.n

\* C13: the index a seed has at reset is never reassigned by step: the same
\* index denotes the same seed after any number of steps and re-sorts.
C13_IndexDenotesSameSeed ==
    \A i \in 1..Len(points) : points[i].id = i

\* C14: two independent arenas of the same kind, configured identically, given
\* the same seeds and motor data and stepped the same number of times, return
\* identical ranked outputs (order, scores, parameters), in the data-parallel
\* arena under every scheduling of the workers.
C14_StepIsDeterministic ==
    Outputs(points, config, heuristic) = Outputs(peer, config, heuristic)

\* two data-parallel arenas of two seeds with unlike scores, stepped 26 times
C14_Witness ==
    /\ is_async
    /\ last_op.name = "step"
    /\ steps >= frontier_time_limit + 1
    /\ Len(points) = MaxPoints
    /\ Len(peer) = MaxPoints
    /\ points[1].score # points[2].score
    /\ peer[1].id = points[1].id

\* the orientation sub-vectors of a point: the whole 3-vector of FixedX3d, rows
\* 3..5 of DynamicX3d and of every column of Symmetrical and Unconstrained
Orientations(cfg, point) ==
    IF cfg = "X3d" THEN {point}
    ELSE {FixedView(point, 4, col) : col \in 1..Columns(cfg)}

\* a norm within half a lattice step of 1.0
IsUnitNorm(o) ==
    /\ ~HasNaN(o)
    /\ (2 * Unit - 1) * (2 * Unit - 1) <= 4 * Dot(o, o)
    /\ 4 * Dot(o, o) <= (2 * Unit + 1) * (2 * Unit + 1)

\* C15: after any step, for every parameterisation, every orientation
\* sub-vector of every updated seed's point is unit-norm (seeds whose point is
\* NaN set aside).
C15_OrientationsUnitAfterStep ==
    last_op.name = "step" =>
        \A i \in 1..Len(points) :
            (points[i].state.time > 0 /\ ~HasNaN(points[i].state.point)) =>
                \A o \in Orientations(config, points[i].state.point) : IsUnitNorm(o)

\* C16: every time the optimiser evaluates a motor configuration, the first
\* step after reset included, all of its orientation vectors are unit-norm
\* (seeds whose point is NaN set aside).
C16_EvaluatedOrientationsUnit ==
    [][last_op'.name = "step" =>
        \A i \in 1..Len(points) :
            (~points[i].state.done /\ ~HasNaN(points[i].state.point)) =>
                LET motors == motor_config(config, points[i].state.point)
                IN \A m \in 1..Len(motors) : IsUnitNorm(motors[m].orientation)]_vars

\* C17: in the data-parallel step no seed mutates another seed's state: under
\* every schedule of the workers the population after the fan-out (and the
\* sort) is the one obtained by updating the seeds one by one in index order.
C17_WorkersAreIsolated ==
    [][(is_async /\ last_op'.name = "step") =>
        /\ points' = AsyncStepPoints(points, config, heuristic, motor_data)
        /\ peer' = AsyncStepPoints(peer, config, heuristic, motor_data)]_vars

\* a data-parallel arena of two seeds that have moved apart, after a fan-out
C17_Witness ==
    /\ is_async
    /\ last_op.name = "step"
    /\ Len(points) = MaxPoints
    /\ steps >= 2
    /\ points[1].state.point # points[2].state.point
    /\ points[1].state.first_moment # points[2].state.first_moment

\* the ScoreSettings field a toggle is flattened into
SettingOf(f) == IF f = "surface_area_loss" THEN "surface_area_score" ELSE f

\* the fields whose name says MES offset
MesOffsets ==
    {"mes_x_off", "mes_y_off", "mes_z_off", "mes_x_rot_off", "mes_y_rot_off", "mes_z_rot_off"}

\* flatten gives every pair its value when enabled, and when disabled -1.0 to
\* the terms of sentinels and 0.0 to all the others
FlattenedWith(sentinels) ==
    \A f \in ToggleFieldSet :
        calc.settings[SettingOf(f)] =
            IF calc.toggles[f][1] THEN calc.toggles[f][2]
            ELSE IF f \in sentinels THEN -1 ELSE 0

\* C18, as amended: flatten maps every (enabled, value) pair to value when
\* enabled; when disabled the flattened value is 0.0 for every term except the
\* six MES-offset terms, for which it is the disable sentinel -1.0.
C18_FlattenSixSentinels ==
    calc.stage = "settings" => FlattenedWith(MesOffsets)

\* C18, as stated: the same with five MES-offset terms carrying the sentinel,
\* whichever five they are.
C18_FlattenFiveSentinels ==
    calc.stage = "settings" =>
        \E five \in SUBSET MesOffsets : Cardinality(five) = 5 /\ FlattenedWith(five)

\* flattened settings with all six offsets and another term disabled and a
\* term enabled
C18_Witness ==
    /\ calc.stage = "settings"
    /\ \A f \in MesOffsets : ~calc.toggles[f][1] /\ calc.settings[f] = -1
    /\ ~calc.toggles.surface_area_loss[1] /\ calc.settings.surface_area_score = 0
    /\ \E f \in ToggleFieldSet : calc.toggles[f][1] /\ calc.settings[f] # 0

\* the twenty terms of a ScoreResult
ScoreTerms ==
    {"mes_linear", "mes_torque", "avg_linear", "avg_torque", "min_linear", "min_torque",
     "x", "y", "z", "x_rot", "y_rot", "z_rot", "center_of_mass_loss", "center_loss",
     "surface_area_score", "dimension_loss", "tube_exclusion_loss",
     "thruster_exclusion_loss", "thruster_flow_exclusion_loss", "cardinality_loss"}

\* the sum of weight * term over a set of terms
RECURSIVE WeightedSum(_, _, _)
WeightedSum(terms, settings, unscaled) ==
    IF terms = {} THEN 0
    ELSE LET t == CHOOSE t \in terms : TRUE
         IN settings[t] * unscaled[t] + WeightedSum(terms \ {t}, settings, unscaled)

\* C19: the scalar score equals the sum over all twenty terms of the unscaled
\* term times the weight of the same name, every scaled term being that
\* product; a term whose weight is 0 contributes nothing.
C19_ScoreIsSumOfScaledTerms ==
    calc.stage = "scored" =>
        /\ \A t \in ScoreTerms :
            Scale(calc.breakdown, calc.settings)[t] = calc.settings[t] * calc.breakdown[t]
        /\ calc.score = WeightedSum(ScoreTerms, calc.settings, calc.breakdown)
        /\ calc.score = WeightedSum({t \in ScoreTerms : calc.settings[t] # 0},
                                    calc.settings, calc.breakdown)

\* a score with x and y weighted differently on different strengths, and a
\* term that is not zero under a weight that is
C19_Witness ==
    /\ calc.stage = "scored"
    /\ calc.settings.x # calc.settings.y
    /\ calc.breakdown.x # calc.breakdown.y
    /\ calc.settings.x # 0 /\ calc.settings.y # 0
    /\ \E t \in ScoreTerms : calc.settings[t] = 0 /\ calc.breakdown[t] # 0
    /\ calc.score # 0

\* what one axis adds to its MES term according to the claim
MesContribution(axis) ==
    LET offset == MesOffset(axis, calc.settings)
        p == calc.result[axis]
    IN IF offset > 0 THEN (p - offset) * (p - offset) ELSE 0

\* C20: mes_linear is the sum over the linear axes, and mes_torque the sum over
\* the torque axes, of (p[ax] - goal_ax)^2 with goal_ax the axis's offset if it
\* is positive and p[ax] otherwise: an axis whose offset is 0 or -1.0 adds 0.
C20_MesTerms ==
    calc.stage = "scored" =>
        /\ calc.breakdown.mes_linear =
            MesContribution("x") + MesContribution("y") + MesContribution("z")
        /\ calc.breakdown.mes_torque =
            MesContribution("x_rot") + MesContribution("y_rot") + MesContribution("z_rot")

\* strengths scored with a disabled offset, a zero offset and a positive
\* offset on the linear axes, all three strengths positive, and positive
\* offsets away from the strengths on the torque axes
C20_Witness ==
    /\ calc.stage = "scored"
    /\ calc.settings.mes_x_off = -1 /\ calc.result.x > 0
    /\ calc.settings.mes_y_off = 0 /\ calc.result.y > 0
    /\ calc.settings.mes_z_off > 0 /\ calc.result.z # calc.settings.mes_z_off
    /\ calc.breakdown.mes_linear > 0
    /\ calc.breakdown.mes_torque > 0

\* the eight corners of the body tube's envelope
TubeEnvelope(settings) ==
    {<<sx * settings.tube_exclusion_radius, sy * TubeHalfLength,
       sz * settings.tube_exclusion_radius>> : sx \in {-1, 1}, sy \in {-1, 1}, sz \in {-1, 1}}

Within(box, p) == \A c \in 1..3 : box.min[c] <= p[c] /\ p[c] <= box.max[c]

\* C21: the box the scorer computes contains the envelope of the body tube
\* (+-tube_exclusion_radius, +-0.17, +-tube_exclusion_radius) and every motor
\* position, and its half-extent is at least (tube_exclusion_radius, 0.17,
\* tube_exclusion_radius).
C21_AabbContainsTubeAndMotors ==
    calc.stage = "scored" =>
        /\ \A corner \in TubeEnvelope(calc.settings) : Within(calc.aabb, corner)
        /\ \A k \in 1..Len(calc.motors) : Within(calc.aabb, calc.motors[k].position)
        /\ calc.aabb.max[1] - calc.aabb.min[1] >= 2 * calc.settings.tube_exclusion_radius
        /\ calc.aabb.max[2] - calc.aabb.min[2] >= 2 * TubeHalfLength
        /\ calc.aabb.max[3] - calc.aabb.min[3] >= 2 * calc.settings.tube_exclusion_radius

\* the signs a motor id's name states: Right = +x, Front = +y, Top = +z
NameSigns(id) ==
    CASE id = "FrontRightTop" -> <<1, 1, 1>>
      [] id = "FrontRightBottom" -> <<1, 1, -1>>
      [] id = "FrontLeftTop" -> <<-1, 1, 1>>
      [] id = "FrontLeftBottom" -> <<-1, 1, -1>>
      [] id = "BackRightTop" -> <<1, -1, 1>>
      [] id = "BackRightBottom" -> <<1, -1, -1>>
      [] id = "BackLeftTop" -> <<-1, -1, 1>>
      [] id = "BackLeftBottom" -> <<-1, -1, -1>>

\* the reflections that carry the seed corner to a position, as signs per
\* component: ReflectYZ flips x, ReflectXZ flips y, ReflectXY flips z
Flips(position) == [c \in 1..3 |-> IF position[c] < 0 THEN -1 ELSE 1]

C23_SymmetricalMirrorHalf ==
    calc.stage = "motor_config" =>
        LET k == calc.k
            motors == calc.motors
        IN  /\ Len(motors) = 2 * k
            /\ {motors[m][1] : m \in 1..Len(motors)} = 0..(2 * k - 1)
            /\ \A m \in 1..Len(motors) : motors[m][1] = m - 1
            /\ \A i \in 1..k :
                   /\ motors[i][2].position = SubSeq(calc.point, 6 * (i - 1) + 1, 6 * (i - 1) + 3)
                   /\ motors[i][2].orientation = SubSeq(calc.point, 6 * (i - 1) + 4, 6 * (i - 1) + 6)
                   /\ motors[k + i][2].position =
                          <<-motors[i][2].position[1], motors[i][2].position[2],
                            motors[i][2].position[3]>>
                   /\ motors[k + i][2].orientation =
                          <<-motors[i][2].orientation[1], motors[i][2].orientation[2],
                            motors[i][2].orientation[3]>>

\* three different columns off the mirror plane: six motors, the last the
\* mirror image of the third
C23_Witness ==
    /\ calc.stage = "motor_config"
    /\ calc.k = 3
    /\ calc.point = <<2, 1, 0, 0, 5, 0>> \o <<1, -3, 2, 3, 4, 0>> \o <<4, 4, 3, 5, 0, 0>>
    /\ calc.motors[6] = <<5, [position |-> <<-4, 4, 3>>, orientation |-> <<-5, 0, 0>>]>>
    /\ calc.motors[3] = <<2, [position |-> <<4, 4, 3>>, orientation |-> <<5, 0, 0>>]>>

\* the data set a signed current is looked up in
DataSetOf(table, current) == IF current[1] >= 0 THEN table.forward ELSE table.backward

\* C24: motor-data lookups never fail: a lookup by a current whose magnitude is
\* beyond the largest sample of a non-empty table returns the endpoint record,
\* and so calculate_thrust_limits never fails either.
C24_LookupClampsToEndpoint ==
    /\ calc.stage = "lookup" =>
           LET data_set == DataSetOf(calc.table, calc.current)
           IN  /\ ~calc.found.panicked
               /\ FAbs(calc.current[1]) > data_set[Len(data_set)].current * calc.current[2]
                      => calc.found.record = data_set[Len(data_set)]
    /\ calc.stage = "thrust_limits" => ~calc.limits.panicked

\* the spin sign of the motor a compute_motors entry names
SpinOf(motor) == MotorSettingsFrom(motor.id).sign

\* the number of reflections that produce a position from the seed corner
ReflectionCount(position) == Cardinality({c \in 1..3 : Flips(position)[c] = -1})

\* C27: the spin sign alternates with the parity of the reflections: the motors
\* reached by an even number (FrontRightTop, FrontLeftBottom, BackLeftTop,
\* BackRightBottom) share one sign, those reached by an odd number
\* (FrontRightBottom, FrontLeftTop, BackRightTop, BackLeftBottom) the opposite.
C27_SpinAlternatesWithParity ==
    calc.stage = "compute_motors" =>
        /\ \A a, b \in 1..Len(calc.motors) :
               SpinOf(calc.motors[a]) =
                   IF (ReflectionCount(calc.motors[a].position)
                          + ReflectionCount(calc.motors[b].position)) % 2 = 0
                   THEN SpinOf(calc.motors[b]) ELSE -SpinOf(calc.motors[b])
        /\ {calc.motors[m].id : m \in {n \in 1..Len(calc.motors) :
                                         ReflectionCount(calc.motors[n].position) % 2 = 0}}
               = {"FrontRightTop", "FrontLeftBottom", "BackLeftTop", "BackRightBottom"}
        /\ {calc.motors[m].id : m \in {n \in 1..Len(calc.motors) :
                                         ReflectionCount(calc.motors[n].position) % 2 = 1}}
               = {"FrontRightBottom", "FrontLeftTop", "BackRightTop", "BackLeftBottom"}
        /\ \A m \in 1..Len(calc.motors) : SpinOf(calc.motors[m]) \in {-1, 1}

\* the eight motors computed, the seed counter-clockwise, a once-reflected
\* motor clockwise and a twice-reflected one counter-clockwise again
C27_Witness ==
    /\ calc.stage = "compute_motors"
    /\ \E a, b, c \in 1..Len(calc.motors) :
           /\ ReflectionCount(calc.motors[a].position) = 0 /\ SpinOf(calc.motors[a]) = -1
           /\ ReflectionCount(calc.motors[b].position) = 1 /\ SpinOf(calc.motors[b]) = 1
           /\ ReflectionCount(calc.motors[c].position) = 2 /\ SpinOf(calc.motors[c]) = -1
    /\ \E d \in 1..Len(calc.motors) :
           ReflectionCount(calc.motors[d].position) = 3 /\ SpinOf(calc.motors[d]) = 1

\* the numerators of the currents handed to the table
Numerators(currents) == Vec([m \in 1..Len(currents) |-> currents[m][1]])

\* C30: the currents mix_movement hands to the table total at most
\* MAX_AMPERAGE in absolute value: a raw mix whose absolute sum exceeds the
\* motor count is rescaled onto the budget, and one within it is not scaled.
C30_CurrentBudget ==
    calc.stage = "mix_movement" =>
        LET raw_mix == calc.mix.raw_mix
            currents == calc.mix.currents
            den == currents[1][2]
        IN  /\ Len(currents) = 8
            /\ \A m \in 1..Len(currents) : currents[m][2] = den /\ den > 0
            /\ TotalRaw(Numerators(currents)) <= MAX_AMPERAGE * den
            /\ TotalRaw(raw_mix) > Len(raw_mix) * RawUnit
                   => TotalRaw(Numerators(currents)) = MAX_AMPERAGE * den
            /\ TotalRaw(raw_mix) <= Len(raw_mix) * RawUnit
                   => \A m \in 1..Len(currents) :
                          currents[m][1] * RawUnit * Len(raw_mix)
                              = raw_mix[m] * MAX_AMPERAGE * den

\* a mix over the budget with reversed motors in it, rescaled
C30_Witness ==
    /\ calc.stage = "mix_movement"
    /\ calc.mixer = "table"
    /\ TotalRaw(calc.mix.raw_mix) > Len(calc.mix.raw_mix) * RawUnit
    /\ \E m \in 1..Len(calc.mix.raw_mix) :
           calc.mix.raw_mix[m] # 0 /\ calc.mix.raw_mix[m] % 5 = 0
    /\ \E m \in 1..Len(calc.mix.raw_mix) : calc.mix.raw_mix[m] % 5 # 0
    /\ calc.mix.currents[1][2] = RawUnit * TotalRaw(calc.mix.raw_mix) * 8

\* C25: in the serial arena a seed is marked done only for stagnation: a seed
\* that last improved by more than 1 % at step t is not done before step
\* t + 26, so one that improves on every step is never done; and once a seed
\* has been stepped its frontier_threshold names the step of that improvement.
C25_DoneOnlyForStagnation ==
    ~is_async =>
        \A i \in 1..Len(points) :
            /\ points[i].state.done
                   => stagnation[points[i].id].count >= frontier_time_limit + 1
            /\ (~points[i].state.done /\ IsFinite(stagnation[points[i].id].best))
                   => points[i].state.frontier_threshold[2]
                          = points[i].state.time - stagnation[points[i].id].count

\* C28: the counters of every seed: time grows by exactly 1 with every Adam
\* update of the seed and never otherwise, a reset starts it at 0, so it is the
\* number of updates since the reset (the number of steps, for a seed that is
\* not done); and 0 <= frontier_threshold.1 <= time, so the stagnation age is
\* never negative.
C28_TimeCountsUpdates ==
    [][/\ last_op'.name = "reset" =>
              \A j \in 1..Len(points') : points'[j].state.time = 0
       /\ last_op'.name = "step" =>
              \A i \in 1..Len(points) :
                  \E j \in 1..Len(points') :
                      /\ points'[j].id = points[i].id
                      /\ points'[j].state.time =
                             IF points'[j].state = points[i].state
                             THEN points[i].state.time
                             ELSE points[i].state.time + 1
                      /\ points[i].state.done => points'[j].state = points[i].state
                      /\ ~points[i].state.done => points'[j].state.time = steps'
       /\ \A j \in 1..Len(points') :
              /\ 0 <= points'[j].state.frontier_threshold[2]
              /\ points'[j].state.frontier_threshold[2] <= points'[j].state.time
              /\ points'[j].state.time <= steps'
              /\ points'[j].state.time - points'[j].state.frontier_threshold[2] >= 0]_vars

\* a serial population one step after its seeds became done: their clocks
\* stopped at 26 while the arena was stepped 27 times
C28_Witness ==
    /\ ~is_async
    /\ last_op.name = "step"
    /\ steps = frontier_time_limit + 2
    /\ Len(points) = 2
    /\ \A i \in 1..Len(points) :
           points[i].state.done /\ points[i].state.time = frontier_time_limit + 1

\* every seed of the population is done
AllDone == \A i \in 1..Len(points) : points[i].state.done

\* the seeds of a population by id: state and stored score, the order left out
Held(pts) == {[id |-> pts[i].id, state |-> pts[i].state, score |-> pts[i].score] :
                 i \in 1..Len(pts)}

C26_StagnantSeedsComplete ==
    calc.stage = "loop" =>
        /\ \A k \in 1..Len(calc.points) :
               (steps - 1) - calc.points[k].seen.since <= 25
        /\ \A k \in 1..Len(calc.completed_points) :
               LET done == calc.completed_points[k]
               IN \/ done.gradient_norm_squared
                         < CRITICAL_POINT_EPSILON * CRITICAL_POINT_EPSILON
                  \/ (done.new_point.time - 1) - done.new_point.seen.since > 25

====
